---- MODULE Spec2Model ----
(***************************************************************************)
(* Rowan microframework: the controller tree.                              *)
(*                                                                         *)
(* A controller is a function (context, callback).  The composing          *)
(* controllers of controllers/core.js (createRouter, createMethodMap,      *)
(* createErrorHandler, createFallback, createSubtreeData) are modelled     *)
(* over inner controllers that call their callback exactly once, either    *)
(* before they return ("sync") or from a later turn of the event loop      *)
(* ("async").  One action is one turn of the event loop: it runs until     *)
(* every function called in that turn has returned.                        *)
(***************************************************************************)
EXTENDS Integers, Sequences, FiniteSets, TLC

VARIABLES controller, req, server, log, seq, suite, store, couch, fs, generator

vars == <<controller, req, server, log, seq, suite, store, couch, fs, generator>>

(***************************************************************************)
(* Bounds                                                                  *)
(***************************************************************************)
\* The longest list of inner controllers given to a composing controller.
MaxSubs == 3

Modes == {"sync", "async"}
Methods == {"GET", "POST"}
Paths == {<<>>, <<"a">>, <<"b">>, <<"a", "b">>, <<"b", "a">>}

(***************************************************************************)
(* Errors                                                                  *)
(***************************************************************************)
\* Status descriptions of information/http_codes (httpStatusCodes).
httpStatusCodes(statusCode) ==
    CASE statusCode = 401 -> "Unauthorized"
      [] statusCode = 403 -> "Forbidden"
      [] statusCode = 404 -> "Not Found"
      [] statusCode = 405 -> "Method Not Allowed"
      [] statusCode = 500 -> "Internal Server Error"
      [] OTHER -> ""

\* An error object.  id tells objects apart: the error of inner controller
\* i has id i, an error made by a composing controller has id 0.  A
\* statusCode of 0 and a description of "" stand for undefined (both are
\* falsy in the source's || defaults).
HttpError(id, statusCode, description) ==
    [id |-> id,
     statusCode |-> statusCode,
     description |->
        IF description # "" THEN description
        ELSE IF httpStatusCodes(statusCode) # "" THEN httpStatusCodes(statusCode)
        ELSE "Unknown"]

Http404 == HttpError(0, 404, "")
Http405 == HttpError(0, 405, "")

\* callback(null)
NoErr == [id |-> -1, statusCode |-> 0, description |-> ""]

\* A plain Error that is no HttpError: it has no statusCode or description.
PlainError(id) == [id |-> id, statusCode |-> 0, description |-> ""]

\* list.indexOf(x): the 0-based position of the first x, or -1.
indexOf(list, x) ==
    IF \E i \in 1..Len(list) : list[i] = x
    THEN (CHOOSE i \in 1..Len(list) :
              list[i] = x /\ \A j \in 1..(i - 1) : list[j] # x) - 1
    ELSE -1

(***************************************************************************)
(* RowanResponse: the head is sent with the first write() or end().        *)
(* nsr is the sequence of calls that reached the node response.            *)
(***************************************************************************)
NoBody == [kind |-> "none", code |-> 0, text |-> ""]

\* A headers object maps the names of its own properties to values.
NoHeaders == [h \in {} |-> ""]
ContentType(value) == [h \in {"Content-Type"} |-> value]

RowanResponse ==
    [sentHead |-> FALSE, status |-> 200, headers |-> NoHeaders, nsr |-> <<>>]

NsrCall(op, status, headers, body) ==
    [op |-> op, status |-> status, headers |-> headers, body |-> body]

\* Mutant of setStatus: after the head was sent the call does nothing.
setStatus_silent(q, status) ==
    IF q.threw # "none" THEN q
    ELSE IF q.response.sentHead
         THEN q
         ELSE [q EXCEPT !.response.status = status]

setStatus(q, status) ==
    IF q.threw # "none" THEN q
    ELSE IF q.response.sentHead
         THEN [q EXCEPT !.threw = "RowanResponseError"]
         ELSE [q EXCEPT !.response.status = status]

\* Mutant of addHeaders: the headers given take the place of _headers.
addHeaders_replaces(q, headers) ==
    IF q.threw # "none" THEN q
    ELSE IF q.response.sentHead
         THEN [q EXCEPT !.threw = "RowanResponseError"]
         ELSE [q EXCEPT !.response.headers = headers]

\* The own properties of headers overwrite those of _headers.
addHeaders(q, headers) ==
    IF q.threw # "none" THEN q
    ELSE IF q.response.sentHead
         THEN [q EXCEPT !.threw = "RowanResponseError"]
         ELSE LET _headers == q.response.headers
              IN [q EXCEPT !.response.headers =
                      [h \in DOMAIN _headers \cup DOMAIN headers |->
                          IF h \in DOMAIN headers THEN headers[h]
                          ELSE _headers[h]]]

sendHead(q) ==
    IF q.response.sentHead THEN q
    ELSE [q EXCEPT !.response.sentHead = TRUE,
                   !.response.nsr =
                       Append(@, NsrCall("writeHead", q.response.status,
                                         q.response.headers, NoBody))]

write(q, body) ==
    IF q.threw # "none" THEN q
    ELSE LET q1 == sendHead(q)
         IN [q1 EXCEPT !.response.nsr =
                 Append(@, NsrCall("write", 0, NoHeaders, body))]

end(q) ==
    IF q.threw # "none" THEN q
    ELSE LET q1 == sendHead(q)
         IN [q1 EXCEPT !.response.nsr =
                 Append(@, NsrCall("end", 0, NoHeaders, NoBody))]

\* response.writeHead: the two steps, nothing is sent.
writeHead(q, status, headers) ==
    addHeaders(setStatus(q, status), headers)

(***************************************************************************)
(* Inner controllers.  Each calls its callback exactly once.               *)
(***************************************************************************)
\* What an inner controller does: "content" responds like
\* createStaticContent / createTemplateRenderer and calls back with
\* success; "error" calls back with an HttpError like createErrorGenerator;
\* "plainError" calls back with an error that is no HttpError (a failed
\* template.render); "undefined" is a missing controller (no entry in a
\* method map, no default); "setData" and "deleteData" are blackboard
\* controllers that assign, or delete, a key of context.data and then
\* respond like "content"; "noResponse" calls back with success and has
\* written no response; "throws" throws an exception when it is called
\* and never calls back.  Three break the contract of a controller:
\* "contentThenError" responds like "content" and then calls back with an
\* HttpError, "errorTwice" calls back twice with an HttpError, and
\* "contentTwice" responds like "content" and calls back twice.
Leaf(type, statusCode, description) ==
    [type |-> type, statusCode |-> statusCode, description |-> description]

StaticContent == Leaf("content", 0, "")
Undefined == Leaf("undefined", 0, "")

Leaves ==
    {StaticContent,
     Leaf("error", 404, "Missing"),
     Leaf("error", 500, "Broken"),
     Leaf("plainError", 0, "")}

\* The error inner controller idx calls back with (NoErr for success).
LeafError(leaf, idx) ==
    CASE leaf.type \in {"error", "contentThenError", "errorTwice"} ->
             HttpError(idx, leaf.statusCode, leaf.description)
      [] leaf.type = "plainError" -> PlainError(idx)
      [] OTHER -> NoErr

Throws == Leaf("throws", 0, "")
NoResponse == Leaf("noResponse", 0, "")
SetData == Leaf("setData", 0, "")
DeleteData == Leaf("deleteData", 0, "")

\* The leaves that respond with content and call back with success.
Responds(leaf) ==
    leaf.type \in {"content", "setData", "deleteData",
                   "contentThenError", "contentTwice"}

ContentThenError == Leaf("contentThenError", 500, "Broken")
ErrorTwice == Leaf("errorTwice", 404, "Missing")
ContentTwice == Leaf("contentTwice", 0, "")

\* The leaves that call their callback a second time.
CallsBackTwice(leaf) == leaf.type \in {"errorTwice", "contentTwice"}

ContentBody == [kind |-> "content", code |-> 0, text |-> "hi"]

\* responseUtil without its closing callback(null)
responseUtil(q, content, contentType) ==
    end(write(addHeaders(setStatus(q, 200), ContentType(contentType)), content))

(***************************************************************************)
(* The context and the run of one request                                  *)
(***************************************************************************)
Keys == {"k"}

\* A data object: its prototype (0 for Object.prototype) and its own
\* properties (0 for a property it does not have).
EmptyObject == [proto |-> 0, own |-> [k \in Keys |-> 0]]

\* The own properties context.data may have when a request reaches the
\* tree: none, as the driver makes it, or a key an earlier controller set.
InitialData == [Keys -> {0, 2}]

\* object[key], looked up along the prototype chain (0 for undefined).
RECURSIVE lookup(_, _, _)
lookup(heap, id, key) ==
    IF id = 0 THEN 0
    ELSE IF heap[id].own[key] # 0 THEN heap[id].own[key]
    ELSE lookup(heap, heap[id].proto, key)

\* What an inner controller finds in the context when it is invoked.
NotSeen ==
    [at |-> FALSE, remainingPath |-> <<>>,
     patternGroups |-> [present |-> FALSE, isArray |-> FALSE, str |-> <<>>,
                        items |-> <<>>],
     data |-> [k \in Keys |-> 0], response |-> RowanResponse]

\* context = {request, response, remainingPath, data:{}} and the record of
\* what happened to it.  oldData is the closure variable of
\* createSubtreeData; patternGroups is absent, an array (items) or a string
\* (str); data0 keeps the own properties context.data came with; seen,
\* trace, pending, calls and threw observe the run.  driven tells that the
\* request came through the server of createRowanServer, whose callback
\* then is the one the tree is given; reports are the errors given to
\* reportError and closed tells that it called server.close().
\* sent tells for each call of the callback whether the response was
\* finished when it came.  nodeThrows tells what the node response does with a writeHead() that
\* comes after its end(): it throws, or it takes the call.
NewRequest ==
    [started |-> FALSE,
     method |-> "GET",
     path |-> <<>>,
     remainingPath |-> <<>>,
     patternGroups |-> [present |-> FALSE, isArray |-> FALSE, str |-> <<>>,
                        items |-> <<>>],
     data |-> 1,
     data0 |-> EmptyObject.own,
     heap |-> <<EmptyObject>>,
     oldData |-> 0,
     seen |-> NotSeen,
     driven |-> FALSE,
     nodeThrows |-> FALSE,
     sent |-> <<>>,
     reports |-> <<>>,
     closed |-> FALSE,
     response |-> RowanResponse,
     trace |-> <<>>,
     pending |-> {},
     calls |-> <<>>,
     threw |-> "none"]

Event(ev, idx, mode) == [ev |-> ev, idx |-> idx, mode |-> mode]

(***************************************************************************)
(* The driver: createRowanServer                                           *)
(***************************************************************************)
\* opts = {quitOnError: true} overridden by the options given
Options == [quitOnError : BOOLEAN]

\* response.finished of the node response
finished(q) ==
    \E p \in 1..Len(q.response.nsr) : q.response.nsr[p].op = "end"

\* The headers reportError sends: the name is Context-Type.
ContextType == [h \in {"Context-Type"} |-> "text/html"]

\* Mutant of reportError: the server is closed whatever the options say.
reportError_alwaysQuits(q, err, hasMessage) ==
    LET errCode == err.statusCode
        head == NsrCall("writeHead", errCode, ContextType, NoBody)
        h1 == NsrCall("write", 0, NoHeaders,
                      [kind |-> "h1", code |-> errCode, text |-> err.description])
        para == NsrCall("write", 0, NoHeaders,
                        [kind |-> "p", code |-> 0, text |-> "message"])
        calls == IF hasMessage
                 THEN <<head, h1, para, NsrCall("end", 0, NoHeaders, NoBody)>>
                 ELSE <<head, h1, NsrCall("end", 0, NoHeaders, NoBody)>>
    IN IF finished(q) /\ q.nodeThrows
       THEN [q EXCEPT !.reports = Append(@, err), !.threw = "Error"]
       ELSE [q EXCEPT !.response.nsr = @ \o calls,
                      !.reports = Append(@, err),
                      !.closed = TRUE]

\* reportError: the calls go to the node response itself, not to its
\* RowanResponse wrapper, and it makes them whether or not the response
\* was finished before; a node response that throws on the writeHead()
\* ends reportError there.  hasMessage stands for a truthy err.message.
reportError(q, err, hasMessage) ==
    LET errCode == err.statusCode
        head == NsrCall("writeHead", errCode, ContextType, NoBody)
        h1 == NsrCall("write", 0, NoHeaders,
                      [kind |-> "h1", code |-> errCode, text |-> err.description])
        para == NsrCall("write", 0, NoHeaders,
                        [kind |-> "p", code |-> 0, text |-> "message"])
        calls == IF hasMessage
                 THEN <<head, h1, para, NsrCall("end", 0, NoHeaders, NoBody)>>
                 ELSE <<head, h1, NsrCall("end", 0, NoHeaders, NoBody)>>
    IN IF finished(q) /\ q.nodeThrows
       THEN [q EXCEPT !.reports = Append(@, err), !.threw = "Error"]
       ELSE [q EXCEPT !.response.nsr = @ \o calls,
                      !.reports = Append(@, err),
                      !.closed = @ \/ server.quitOnError]

\* Mutant of driverCallback: the error is reported as it came, without
\* the check for a statusCode.
driverCallback_rawError(q, err) ==
    IF err # NoErr
    THEN reportError(q, err, err.statusCode = 0)
    ELSE IF ~finished(q)
         THEN reportError(q, HttpError(0, 504, ""), FALSE)
         ELSE q

\* Mutant of driverCallback: the check that the response was finished is
\* missing.
driverCallback_noSanityCheck(q, err) ==
    IF err # NoErr
    THEN IF err.statusCode = 0
         THEN reportError(q, HttpError(0, 500, ""), TRUE)
         ELSE reportError(q, err, FALSE)
    ELSE q

\* The callback the server gives the root controller.
driverCallback(q, err) ==
    IF err # NoErr
    THEN IF err.statusCode = 0
         THEN reportError(q, HttpError(0, 500, ""), TRUE)
         ELSE reportError(q, err, FALSE)
    ELSE IF ~finished(q)
         THEN reportError(q, HttpError(0, 504, ""), FALSE)
         ELSE q

\* The callback given to the composing controller: it is the server's
\* when the request came through the server.
callback(q, err) ==
    IF q.threw # "none" THEN q
    ELSE LET q1 == [q EXCEPT !.calls =
                        Append(@, [err |-> err, data |-> q.data]),
                             !.sent = Append(@, finished(q))]
         IN IF q.driven THEN driverCallback(q1, err) ELSE q1

(***************************************************************************)
(* The generic controllers of controllers/generic.js                       *)
(***************************************************************************)
\* A content type that was not given (undefined).
NotGiven == ""

\* respondWithContent: the content type is text/html unless one is given.
respondWithContent(q, content, contentType) ==
    LET type == IF contentType # NotGiven THEN contentType ELSE "text/html"
        q1 == setStatus(q, 200)
        q2 == addHeaders(q1, ContentType(type))
        q3 == write(q2, content)
        q4 == end(q3)
    IN callback(q4, NoErr)

\* The controller createStaticContent(content, contentType) returns.
createStaticContent(q, content, contentType) ==
    respondWithContent(q, content, contentType)

(***************************************************************************)
(* Patterns: a literal, anchored at the start or not, captured or not.     *)
(***************************************************************************)
Pattern(lit, anchored, capture) ==
    [lit |-> lit, anchored |-> anchored, capture |-> capture]

Patterns ==
    {Pattern(<<"a">>, TRUE, FALSE),
     Pattern(<<"b">>, FALSE, TRUE),
     Pattern(<<"a", "b">>, TRUE, TRUE)}

\* pattern.exec(path): the leftmost match, or matched = FALSE for null.
exec(pattern, path) ==
    LET n == Len(pattern.lit)
        at == {i \in 0..(Len(path) - n) :
                  /\ SubSeq(path, i + 1, i + n) = pattern.lit
                  /\ (pattern.anchored => i = 0)}
    IN IF at = {}
       THEN [matched |-> FALSE, index |-> 0, whole |-> <<>>, groups |-> <<>>]
       ELSE [matched |-> TRUE,
             index |-> CHOOSE i \in at : \A j \in at : i <= j,
             whole |-> pattern.lit,
             groups |-> IF pattern.capture THEN <<pattern.lit>> ELSE <<>>]

\* Array.prototype.toString: the elements joined by commas.
RECURSIVE join(_)
join(groups) ==
    IF groups = <<>> THEN <<>>
    ELSE IF Len(groups) = 1 THEN groups[1]
    ELSE groups[1] \o <<",">> \o join(Tail(groups))

\* String(context.patternGroups) as the += of createRouter takes it: ""
\* for the fresh [], the items joined for an array, the string itself.
toString(patternGroups) ==
    IF patternGroups.isArray THEN join(patternGroups.items)
    ELSE patternGroups.str

(***************************************************************************)
(* Controller trees: one composing controller over inner controllers.      *)
(*   router:       routes[i] = {pattern: patterns[i], view: subs[i]}       *)
(*   methodMap:    subs = <<map.GET, map.POST, defaultController>>         *)
(*   errorHandler: codes = unhandledErrors, subs = <<subController>>       *)
(*   fallback:     codes = validErrors, subs = subControllers              *)
(*   subtreeData:  overlay = data, subs = <<subController>>                *)
(* codes.given is FALSE when the factory got one argument (the list is     *)
(* null after the swap of arguments).                                      *)
(***************************************************************************)
Tree(kind, codes, subs, patterns, overlay) ==
    [kind |-> kind, codes |-> codes, subs |-> subs, patterns |-> patterns,
     overlay |-> overlay]

NoCodes == [given |-> FALSE, list |-> <<>>]
CodeLists == {NoCodes,
              [given |-> TRUE, list |-> <<404>>],
              [given |-> TRUE, list |-> <<500>>]}
NoOverlay == [k \in Keys |-> 0]
Overlays == [Keys -> {0, 1}]

SeqsUpTo(S, n) == UNION {[1..m -> S] : m \in 0..n}

\* The inner controllers a tree is built from.
Inner == Leaves \cup {Throws}

Trees ==
    {Tree("fallback", c, subs, <<>>, NoOverlay) :
        c \in CodeLists, subs \in SeqsUpTo(Inner, MaxSubs)}
    \cup {Tree("errorHandler", c, <<l>>, <<>>, NoOverlay) :
        c \in CodeLists, l \in Inner}
    \cup {Tree("subtreeData", NoCodes, <<l>>, <<>>, o) :
        o \in Overlays, l \in Inner \cup {SetData, DeleteData}}
    \cup {Tree("router", NoCodes, [i \in 1..Len(ps) |-> ls[i]], ps, NoOverlay) :
        ps \in SeqsUpTo(Patterns, MaxSubs - 1),
        ls \in [1..(MaxSubs - 1) -> Inner]}
    \cup {Tree("methodMap", NoCodes, subs, <<>>, NoOverlay) :
        subs \in [1..3 -> Inner \cup {Undefined}]}

\* The trees served through the server: those above, and trees with a
\* controller that reports success without having responded.
DriverTrees ==
    Trees
    \cup {Tree("errorHandler", c, <<NoResponse>>, <<>>, NoOverlay) : c \in CodeLists}
    \cup {Tree("fallback", NoCodes, <<l, NoResponse>>, <<>>, NoOverlay) : l \in Leaves}

\* Trees with an inner controller that calls back after the response
\* was sent, or calls back twice.
LateLeaves == {ContentThenError, ErrorTwice, ContentTwice}

LateTrees ==
    {Tree("fallback", NoCodes, subs, <<>>, NoOverlay) :
        subs \in [1..2 -> LateLeaves \cup {StaticContent}] \ {<<StaticContent, StaticContent>>}}
    \cup {Tree("errorHandler", [given |-> TRUE, list |-> <<404, 500>>],
                <<l>>, <<>>, NoOverlay) : l \in LateLeaves}
    \cup {Tree("subtreeData", NoCodes, <<l>>, <<>>, NoOverlay) : l \in LateLeaves}
    \cup {Tree("router", NoCodes, <<l>>, <<p>>, NoOverlay) :
              l \in LateLeaves, p \in Patterns}
    \cup {Tree("methodMap", NoCodes, <<l, StaticContent, Undefined>>, <<>>, NoOverlay) :
              l \in LateLeaves}

MethodIndex(method) == IF method = "GET" THEN 1 ELSE 2

(***************************************************************************)
(* The composing controllers.  modes[i] tells whether inner controller i   *)
(* calls back before it returns or in a later turn.                        *)
(***************************************************************************)
RECURSIVE subControllerCall(_, _, _)
RECURSIVE subControllerDone(_, _, _)
RECURSIVE innerCallback(_, _, _, _)
RECURSIVE processController(_, _, _)

\* Mutant of ErrorHandler_handleError: the status is always 500, not the
\* error's own code.
ErrorHandler_handleError_status500(q, error) ==
    LET statusCode == IF error.statusCode # 0 THEN error.statusCode ELSE 500
        unhandledErrors == controller.codes
    IN IF ~unhandledErrors.given \/ indexOf(unhandledErrors.list, statusCode) < 0
       THEN LET description ==
                    IF error.description # "" THEN error.description
                    ELSE "Server Error"
                body == [kind |-> "h1", code |-> statusCode, text |-> description]
            IN [handled |-> TRUE,
                q |-> end(write(addHeaders(setStatus(q, 500), ContentType("text/html")), body))]
       ELSE [handled |-> FALSE, q |-> q]

\* createErrorHandler.handleError: whether the error is handled here, and
\* the response after it.
ErrorHandler_handleError(q, error) ==
    LET statusCode == IF error.statusCode # 0 THEN error.statusCode ELSE 500
        unhandledErrors == controller.codes
    IN IF ~unhandledErrors.given \/ indexOf(unhandledErrors.list, statusCode) < 0
       THEN LET description ==
                    IF error.description # "" THEN error.description
                    ELSE "Server Error"
                body == [kind |-> "h1", code |-> statusCode, text |-> description]
            IN [handled |-> TRUE,
                q |-> end(write(addHeaders(setStatus(q, statusCode), ContentType("text/html")),
                                body))]
       ELSE [handled |-> FALSE, q |-> q]

\* Mutant of ErrorHandler_callback: the else is missing, so an error that
\* was passed up is followed by a success.
ErrorHandler_callback_noElse(q, err) ==
    IF err # NoErr
    THEN LET h == ErrorHandler_handleError(q, err)
         IN IF ~h.handled THEN callback(callback(h.q, err), NoErr)
            ELSE callback(h.q, NoErr)
    ELSE callback(q, NoErr)

\* Mutant of ErrorHandler_callback: the list of unhandled codes is not
\* consulted, every error is rendered and absorbed.
ErrorHandler_callback_absorbsAll(q, err) ==
    IF err # NoErr
    THEN LET statusCode == IF err.statusCode # 0 THEN err.statusCode ELSE 500
             description == IF err.description # "" THEN err.description
                            ELSE "Server Error"
             body == [kind |-> "h1", code |-> statusCode, text |-> description]
         IN callback(end(write(addHeaders(setStatus(q, statusCode), ContentType("text/html")),
                               body)),
                     NoErr)
    ELSE callback(q, NoErr)

\* The callback createErrorHandler gives its subController.
ErrorHandler_callback(q, err) ==
    IF err # NoErr
    THEN LET h == ErrorHandler_handleError(q, err)
         IN IF ~h.handled THEN callback(h.q, err) ELSE callback(h.q, NoErr)
    ELSE callback(q, NoErr)

\* Mutant of Fallback_handleError: the test is indexOf(...) >= -1, which
\* every code passes.
Fallback_handleError_anyCode(err) ==
    LET validErrors == controller.codes
    IN ~validErrors.given \/ indexOf(validErrors.list, err.statusCode) >= -1

\* createFallback.handleError: can this error be absorbed?
Fallback_handleError(err) ==
    LET validErrors == controller.codes
    IN ~validErrors.given \/ indexOf(validErrors.list, err.statusCode) >= 0

\* Mutant of Fallback_callback: success is passed up, and the next
\* sub-controller is tried all the same.
Fallback_callback_noShortCircuit(q, index, err, modes) ==
    IF err # NoErr
    THEN IF Fallback_handleError(err)
         THEN IF index + 1 < Len(controller.subs)
              THEN processController(q, index + 1, modes)
              ELSE q
         ELSE callback(q, err)
    ELSE IF index + 1 < Len(controller.subs)
         THEN processController(callback(q, NoErr), index + 1, modes)
         ELSE callback(q, NoErr)

\* The callback processController(index) gives its subController; index
\* is 0-based as in the source.
Fallback_callback(q, index, err, modes) ==
    IF err # NoErr
    THEN IF Fallback_handleError(err)
         THEN IF index + 1 < Len(controller.subs)
              THEN processController(q, index + 1, modes)
              ELSE q
         ELSE callback(q, err)
    ELSE callback(q, NoErr)

\* Mutant of SubtreeData_callback: the parent is called back first, the
\* old data is put back afterwards.
SubtreeData_callback_lateRestore(q, err) ==
    [callback(q, err) EXCEPT !.data = q.oldData]

\* The callback createSubtreeData gives its subController.
SubtreeData_callback(q, err) ==
    callback([q EXCEPT !.data = q.oldData], err)

\* The callback a composing controller handed to inner controller idx is
\* called with err.
innerCallback(q, idx, err, modes) ==
    IF q.threw # "none" THEN q
    ELSE CASE controller.kind = "errorHandler" -> ErrorHandler_callback(q, err)
           [] controller.kind = "fallback" ->
                  Fallback_callback(q, idx - 1, err, modes)
           [] controller.kind = "subtreeData" -> SubtreeData_callback(q, err)
           [] OTHER -> callback(q, err)

\* Inner controller idx finishes its work and calls back.
subControllerDone(q, idx, modes) ==
    LET leaf == controller.subs[idx]
        q0 == CASE leaf.type = "setData" ->
                       [q EXCEPT !.heap[q.data].own["k"] = 3]
                [] leaf.type = "deleteData" ->
                       [q EXCEPT !.heap[q.data].own["k"] = 0]
                [] OTHER -> q
        q1 == IF Responds(leaf)
              THEN responseUtil(q0, ContentBody, "text/plain")
              ELSE q0
        q2 == IF q1.threw # "none" THEN q1
              ELSE [q1 EXCEPT !.trace =
                        Append(@, Event("callback", idx, "sync"))]
        q3 == innerCallback(q2, idx, LeafError(leaf, idx), modes)
    IN IF CallsBackTwice(leaf) /\ q3.threw = "none"
       THEN innerCallback([q3 EXCEPT !.trace =
                               Append(@, Event("callback", idx, "sync"))],
                          idx, LeafError(leaf, idx), modes)
       ELSE q3

\* The context as the inner controller being invoked finds it.
Snapshot(q) ==
    [at |-> TRUE, remainingPath |-> q.remainingPath,
     patternGroups |-> q.patternGroups,
     data |-> [k \in Keys |-> lookup(q.heap, q.data, k)],
     response |-> q.response]

\* subController(context, function(err) {...}) for inner controller idx;
\* calling what is no function throws a TypeError, and the exception of
\* a controller that throws is not caught.
subControllerCall(q, idx, modes) ==
    IF q.threw # "none" THEN q
    ELSE IF idx > Len(controller.subs) \/ controller.subs[idx].type = "undefined"
    THEN [q EXCEPT !.threw = "TypeError"]
    ELSE IF controller.subs[idx].type = "throws"
    THEN [q EXCEPT !.trace = Append(@, Event("invoke", idx, "sync")),
                   !.seen = Snapshot(q),
                   !.threw = "Error"]
    ELSE LET q1 == [q EXCEPT !.trace =
                        Append(@, Event("invoke", idx, modes[idx])),
                             !.seen = Snapshot(q)]
         IN IF modes[idx] = "async"
            THEN [q1 EXCEPT !.pending = @ \cup {idx}]
            ELSE subControllerDone(q1, idx, modes)

\* Mutant of processController: a sub-controller that has not called back
\* when it returns is not waited for, the next one is tried at once.
processController_eager(q, index, modes) ==
    LET q1 == subControllerCall(q, index + 1, modes)
    IN IF (index + 1) \in q1.pending /\ index + 1 < Len(controller.subs)
       THEN processController(q1, index + 1, modes)
       ELSE q1

\* createFallback.processController
processController(q, index, modes) ==
    subControllerCall(q, index + 1, modes)

\* createFallback: an array, empty or not, is truthy, so the else branch
\* that calls back with Http404 is never taken.
createFallback(q, modes) ==
    LET subControllersCopy == controller.subs
    IN IF TRUE THEN processController(q, 0, modes)
       ELSE callback(q, Http404)

\* createErrorHandler
createErrorHandler(q, modes) == subControllerCall(q, 1, modes)

\* Mutant of createSubtreeData: no new object is made, the subtree is
\* given the old data object itself.
createSubtreeData_noCopy(q, modes) ==
    LET oldData == q.data
        q1 == [q EXCEPT !.oldData = oldData]
    IN subControllerCall(q1, 1, modes)

\* createSubtreeData: the new data object has the old one as prototype
\* and a copy of the old one's own properties; the data argument is not
\* read.
createSubtreeData(q, modes) ==
    LET oldData == q.data
        newData == [proto |-> oldData, own |-> q.heap[oldData].own]
        q1 == [q EXCEPT !.oldData = oldData,
                        !.heap = Append(@, newData),
                        !.data = Len(q.heap) + 1]
    IN subControllerCall(q1, 1, modes)

\* Mutant of createRouter: the loop does not stop at the first match, the
\* last matching route is the one dispatched to.
createRouter_lastMatch(q, modes) ==
    LET path == q.remainingPath
        matching == {i \in 1..Len(controller.patterns) :
                        exec(controller.patterns[i], path).matched}
    IN IF matching = {} THEN callback(q, Http404)
       ELSE LET i == CHOOSE i \in matching : \A j \in matching : i >= j
                match == exec(controller.patterns[i], path)
                q1 == IF Len(match.groups) > 0
                      THEN [q EXCEPT !.patternGroups =
                               [present |-> TRUE, isArray |-> FALSE,
                                str |-> toString(q.patternGroups)
                                            \o join(match.groups),
                                items |-> <<>>]]
                      ELSE q
                q2 == [q1 EXCEPT !.remainingPath =
                          SubSeq(path, match.index + Len(match.whole) + 1,
                                 Len(path))]
            IN subControllerCall(q2, i, modes)

\* Mutant of createRouter: the remaining path is cut at match.index, the
\* matched text is not removed.
createRouter_keepsMatch(q, modes) ==
    LET path == q.remainingPath
        matching == {i \in 1..Len(controller.patterns) :
                        exec(controller.patterns[i], path).matched}
    IN IF matching = {} THEN callback(q, Http404)
       ELSE LET i == CHOOSE i \in matching : \A j \in matching : i <= j
                match == exec(controller.patterns[i], path)
                q1 == IF Len(match.groups) > 0
                      THEN [q EXCEPT !.patternGroups =
                               [present |-> TRUE, isArray |-> FALSE,
                                str |-> toString(q.patternGroups)
                                            \o join(match.groups),
                                items |-> <<>>]]
                      ELSE q
                q2 == [q1 EXCEPT !.remainingPath =
                          SubSeq(path, match.index + 1, Len(path))]
            IN subControllerCall(q2, i, modes)

\* Mutant of createRouter: without a match the error called back is the
\* Http405 of the method map.
createRouter_wrongError(q, modes) ==
    LET path == q.remainingPath
        matching == {i \in 1..Len(controller.patterns) :
                        exec(controller.patterns[i], path).matched}
    IN IF matching = {} THEN callback(q, Http405)
       ELSE LET i == CHOOSE i \in matching : \A j \in matching : i <= j
                match == exec(controller.patterns[i], path)
                q1 == IF Len(match.groups) > 0
                      THEN [q EXCEPT !.patternGroups =
                               [present |-> TRUE, isArray |-> FALSE,
                                str |-> toString(q.patternGroups)
                                            \o join(match.groups),
                                items |-> <<>>]]
                      ELSE q
                q2 == [q1 EXCEPT !.remainingPath =
                          SubSeq(path, match.index + Len(match.whole) + 1,
                                 Len(path))]
            IN subControllerCall(q2, i, modes)

\* createRouter
createRouter(q, modes) ==
    LET path == q.remainingPath
        matching == {i \in 1..Len(controller.patterns) :
                        exec(controller.patterns[i], path).matched}
    IN IF matching = {} THEN callback(q, Http404)
       ELSE LET i == CHOOSE i \in matching : \A j \in matching : i <= j
                match == exec(controller.patterns[i], path)
                q1 == IF Len(match.groups) > 0
                      THEN [q EXCEPT !.patternGroups =
                               [present |-> TRUE, isArray |-> FALSE,
                                str |-> toString(q.patternGroups)
                                            \o join(match.groups),
                                items |-> <<>>]]
                      ELSE q
                q2 == [q1 EXCEPT !.remainingPath =
                          SubSeq(path, match.index + Len(match.whole) + 1,
                                 Len(path))]
            IN subControllerCall(q2, i, modes)

\* Mutant of createMethodMap: the calls of the sub-controllers lack their
\* return, so control falls through to the Http405 callback.
createMethodMap_noReturn(q, modes) ==
    LET subController == controller.subs[MethodIndex(q.method)]
        defaultController == controller.subs[3]
    IN IF subController.type # "undefined"
       THEN callback(subControllerCall(q, MethodIndex(q.method), modes), Http405)
       ELSE IF defaultController.type # "undefined"
       THEN callback(subControllerCall(q, 3, modes), Http405)
       ELSE callback(q, Http405)

\* Mutant of createMethodMap: the default controller is tried before the
\* map.
createMethodMap_defaultFirst(q, modes) ==
    LET subController == controller.subs[MethodIndex(q.method)]
        defaultController == controller.subs[3]
    IN IF defaultController.type # "undefined"
       THEN subControllerCall(q, 3, modes)
       ELSE IF subController.type # "undefined"
       THEN subControllerCall(q, MethodIndex(q.method), modes)
       ELSE callback(q, Http405)

\* createMethodMap
createMethodMap(q, modes) ==
    LET subController == controller.subs[MethodIndex(q.method)]
        defaultController == controller.subs[3]
    IN IF subController.type # "undefined"
       THEN subControllerCall(q, MethodIndex(q.method), modes)
       ELSE IF defaultController.type # "undefined"
       THEN subControllerCall(q, 3, modes)
       ELSE callback(q, Http405)

\* rootController(context, callback)
rootController(q, modes) ==
    CASE controller.kind = "router" -> createRouter(q, modes)
      [] controller.kind = "methodMap" -> createMethodMap(q, modes)
      [] controller.kind = "errorHandler" -> createErrorHandler(q, modes)
      [] controller.kind = "fallback" -> createFallback(q, modes)
      [] controller.kind = "subtreeData" -> createSubtreeData(q, modes)

(***************************************************************************)
(* Actions                                                                 *)
(***************************************************************************)
ModeChoices == [1..Len(controller.subs) -> Modes]

\* The context the driver builds for a request (createRowanServer).
NewContext(path, method) ==
    [NewRequest EXCEPT !.started = TRUE,
                       !.method = method,
                       !.path = path,
                       !.remainingPath = path]

\* The context with the given own properties in its data object.
WithData(q, own) ==
    [q EXCEPT !.data0 = own, !.heap[q.data].own = own]

Init ==
    /\ generator = <<>>
    /\ fs = <<>>
    /\ couch = <<>>
    /\ store = <<>>
    /\ controller \in Trees
    /\ req = NewRequest
    /\ server = [quitOnError |-> TRUE, closed |-> FALSE, reported |-> FALSE]
    /\ log = <<>>
    /\ seq = <<>>
    /\ suite = <<>>

\* A request arrives: the driver builds the context and calls the tree.
Request ==
    /\ ~req.started
    /\ \E path \in Paths, method \in Methods, own \in InitialData,
          modes \in ModeChoices :
          req' = rootController(WithData(NewContext(path, method), own), modes)
    /\ UNCHANGED <<controller, server, log, seq, suite, store, couch, fs, generator>>

\* A later turn of the event loop: an inner controller that deferred its
\* completion calls back.
Complete ==
    /\ \E idx \in req.pending, modes \in ModeChoices :
          req' = subControllerDone([req EXCEPT !.pending = @ \ {idx}],
                                   idx, modes)
    /\ UNCHANGED <<controller, server, log, seq, suite, store, couch, fs, generator>>

Next == Request \/ Complete

Spec == Init /\ [][Next]_vars

(***************************************************************************)
(* The tree behind the server of createRowanServer                         *)
(***************************************************************************)
InitDriver ==
    /\ generator = <<>>
    /\ fs = <<>>
    /\ couch = <<>>
    /\ store = <<>>
    /\ controller \in DriverTrees
    /\ req = NewRequest
    /\ \E opts \in Options :
          server = [quitOnError |-> opts.quitOnError, closed |-> FALSE,
                    reported |-> FALSE]
    /\ log = <<>>
    /\ seq = <<>>
    /\ suite = <<>>

\* The request listener: it builds the context, with data:{}, and calls
\* the root controller with its callback.
DriverRequest ==
    /\ ~req.started
    /\ ~server.closed
    /\ \E path \in Paths, method \in Methods, modes \in ModeChoices :
          req' = rootController([NewContext(path, method) EXCEPT !.driven = TRUE],
                                modes)
    /\ server' = [server EXCEPT !.closed = @ \/ req'.closed,
                                !.reported = @ \/ req'.reports # <<>>]
    /\ UNCHANGED <<controller, log, seq, suite, store, couch, fs, generator>>

\* A deferred inner controller calls back; the callbacks up to the
\* server's run in the same turn.
DriverComplete ==
    /\ req.driven
    /\ \E idx \in req.pending, modes \in ModeChoices :
          req' = subControllerDone([req EXCEPT !.pending = @ \ {idx}],
                                   idx, modes)
    /\ server' = [server EXCEPT !.closed = @ \/ req'.closed,
                                !.reported = @ \/ req'.reports # <<>>]
    /\ UNCHANGED <<controller, log, seq, suite, store, couch, fs, generator>>

\* The request is over, or was left without an answer, and the server,
\* still listening, is ready for the next one.
DriverNextRequest ==
    /\ req.driven
    /\ req.pending = {}
    /\ req.threw = "none"
    /\ ~server.closed
    /\ req' = NewRequest
    /\ UNCHANGED <<controller, server, log, seq, suite, store, couch, fs, generator>>

NextDriver == DriverRequest \/ DriverComplete \/ DriverNextRequest

\* A request to a server whose tree has a controller that breaks the
\* contract; what the node response does with a late writeHead() is open.
InitLate ==
    /\ generator = <<>>
    /\ fs = <<>>
    /\ couch = <<>>
    /\ store = <<>>
    /\ controller \in LateTrees
    /\ req = NewRequest
    /\ \E opts \in Options :
          server = [quitOnError |-> opts.quitOnError, closed |-> FALSE,
                    reported |-> FALSE]
    /\ log = <<>>
    /\ seq = <<>>
    /\ suite = <<>>

LateRequest ==
    /\ ~req.started
    /\ ~server.closed
    /\ \E path \in Paths, method \in Methods, modes \in ModeChoices,
          nodeThrows \in BOOLEAN :
          req' = rootController([NewContext(path, method) EXCEPT
                                     !.driven = TRUE,
                                     !.nodeThrows = nodeThrows],
                                modes)
    /\ server' = [server EXCEPT !.closed = @ \/ req'.closed,
                                !.reported = @ \/ req'.reports # <<>>]
    /\ UNCHANGED <<controller, log, seq, suite, store, couch, fs, generator>>

NextLate == LateRequest \/ DriverComplete \/ DriverNextRequest

SpecLate == InitLate /\ [][NextLate]_vars

(***************************************************************************)
(* A controller made by createStaticContent, called on its own.  log      *)
(* keeps the arguments it was made with.                                   *)
(***************************************************************************)
Contents ==
    {[kind |-> "content", code |-> 0, text |-> t] : t \in {"", "hi", "<b>hi</b>"}}

ContentTypes == {NotGiven, "text/css", "text/plain"}

InitStatic ==
    /\ generator = <<>>
    /\ fs = <<>>
    /\ couch = <<>>
    /\ store = <<>>
    /\ controller = Tree("errorHandler", NoCodes, <<StaticContent>>, <<>>, NoOverlay)
    /\ req = NewRequest
    /\ server = [quitOnError |-> TRUE, closed |-> FALSE, reported |-> FALSE]
    /\ log = <<>>
    /\ seq = <<>>
    /\ suite = <<>>

StaticRequest ==
    /\ ~req.started
    /\ \E path \in Paths, method \in Methods, own \in InitialData,
          content \in Contents, contentType \in ContentTypes :
          /\ req' = createStaticContent(WithData(NewContext(path, method), own),
                                        content, contentType)
          /\ log' = <<[op |-> "createStaticContent", content |-> content,
                       contentType |-> contentType]>>
    /\ UNCHANGED <<controller, server, seq, suite, store, couch, fs, generator>>

NextStatic == StaticRequest

SpecStatic == InitStatic /\ [][NextStatic]_vars

(***************************************************************************)
(* utils/sequence.js: sequence(opts, step, ...)                            *)
(*                                                                         *)
(* A step is told by what it does when it is invoked: it returns a value   *)
(* ("return"), throws ("throw"), calls this(null, value) before it         *)
(* returns ("callSync") or in a later turn ("callAsync"), or calls         *)
(* this(error) in a later turn ("callAsyncError"); and it may call         *)
(* this.abort() first.  Step fn hands on the value fn, or the error fn.    *)
(* finally_do is function 0; it may also do nothing at all.                *)
(***************************************************************************)
MaxSteps == 3

Null == 0

StepFn(how, abort) == [how |-> how, abort |-> abort]

Hows == {"return", "throw", "callSync", "callAsync", "callAsyncError"}

Steps == {StepFn(how, abort) : how \in Hows, abort \in BOOLEAN}

NoFinally == StepFn("absent", FALSE)

Finallys == {NoFinally} \cup {StepFn(how, FALSE) : how \in Hows \cup {"nothing"}}

reverse(list) == [i \in 1..Len(list) |-> list[Len(list) + 1 - i]]

\* The state of one sequence before do_next(null) starts it off:
\* all_calls is reversed already.  trace keeps the invocations with their
\* arguments, aborts the positions in trace of the invocations that called
\* abort(), pending the call of this a step still owes, exc the exception
\* on its way up the stack, uncaught the one that left the top of it.
NewSequence(steps, finally_do, throw_error) ==
    [steps |-> steps,
     my_opts |-> [throw_error |-> throw_error, finally_do |-> finally_do],
     all_calls |-> reverse([i \in 1..Len(steps) |-> i]),
     finally_done |-> FALSE,
     started |-> FALSE,
     trace |-> <<>>,
     aborts |-> {},
     pending |-> {},
     exc |-> Null,
     uncaught |-> Null]

\* The value, or error, function fn hands on.
Token(s, fn) == IF fn = 0 THEN Len(s.steps) + 1 ELSE fn

\* Mutant of abort: the finally function is dropped with the steps.
abort_dropsFinally(s) ==
    [s EXCEPT !.all_calls = <<>>,
              !.finally_done = TRUE,
              !.aborts = @ \cup {Len(s.trace)}]

\* Mutant of abort: the pending list is left as it is.
abort_keepsCalls(s) ==
    [s EXCEPT !.aborts = @ \cup {Len(s.trace)}]

\* do_next.abort
abort(s) ==
    [s EXCEPT !.all_calls = <<>>,
              !.aborts = @ \cup {Len(s.trace)}]

RECURSIVE do_next(_, _, _), apply(_, _, _, _)

\* do_next, lines 58-73: the next function is taken, or the sequence ends.
do_next(s, err, val) ==
    IF s.all_calls # <<>>
    THEN LET next_call == s.all_calls[Len(s.all_calls)]
         IN apply([s EXCEPT !.all_calls = SubSeq(@, 1, Len(@) - 1)],
                  next_call, err, val)
    ELSE IF s.my_opts.finally_do # NoFinally /\ ~s.finally_done
    THEN apply([s EXCEPT !.finally_done = TRUE], 0, err, val)
    ELSE IF err # Null /\ s.my_opts.throw_error
    THEN [s EXCEPT !.exc = err]
    ELSE s

\* do_next, lines 75-89: next_call.apply(do_next, arguments) in its try,
\* and what follows it.  What do_next throws while the function runs is
\* caught like what the function throws.
apply(s, fn, err, val) ==
    LET f == IF fn = 0 THEN s.my_opts.finally_do ELSE s.steps[fn]
        s1 == [s EXCEPT !.trace =
                   Append(@, [fn |-> fn, err |-> err, val |-> val])]
        s2 == IF f.abort THEN abort(s1) ELSE s1
    IN CASE f.how = "return" -> do_next(s2, Null, Token(s, fn))
         [] f.how = "throw" -> do_next(s2, Token(s, fn), Null)
         [] f.how = "callSync" ->
                LET s3 == do_next(s2, Null, Token(s, fn))
                IN IF s3.exc # Null
                   THEN do_next([s3 EXCEPT !.exc = Null], s3.exc, Null)
                   ELSE s3
         [] f.how = "callAsync" ->
                [s2 EXCEPT !.pending =
                     {[fn |-> fn, err |-> Null, val |-> Token(s, fn)]}]
         [] f.how = "callAsyncError" ->
                [s2 EXCEPT !.pending =
                     {[fn |-> fn, err |-> Token(s, fn), val |-> Null]}]
         [] OTHER -> s2

\* An exception that reaches the bottom of the stack is not caught.
Uncaught(s) ==
    IF s.exc # Null THEN [s EXCEPT !.uncaught = s.exc, !.exc = Null] ELSE s

InitSequence ==
    /\ generator = <<>>
    /\ fs = <<>>
    /\ couch = <<>>
    /\ store = <<>>
    /\ controller = Tree("errorHandler", NoCodes, <<StaticContent>>, <<>>, NoOverlay)
    /\ req = NewRequest
    /\ server = [quitOnError |-> TRUE, closed |-> FALSE, reported |-> FALSE]
    /\ log = <<>>
    /\ \E steps \in SeqsUpTo(Steps, MaxSteps), finally_do \in Finallys,
          throw_error \in BOOLEAN :
          seq = NewSequence(steps, finally_do, throw_error)
    /\ suite = <<>>

\* sequence(...): do_next(null) starts it off.
SequenceStart ==
    /\ ~seq.started
    /\ seq' = Uncaught(do_next([seq EXCEPT !.started = TRUE], Null, Null))
    /\ UNCHANGED <<controller, req, server, log, suite, store, couch, fs, generator>>

\* A later turn: the function that was waited for calls this.
SequenceCallback ==
    /\ \E call \in seq.pending :
          seq' = Uncaught(do_next([seq EXCEPT !.pending = {}],
                                  call.err, call.val))
    /\ UNCHANGED <<controller, req, server, log, suite, store, couch, fs, generator>>

NextSequence == SequenceStart \/ SequenceCallback

SpecSequence == InitSequence /\ [][NextSequence]_vars

(***************************************************************************)
(* utils/test.js: TestSuite and TestContext                                *)
(*                                                                         *)
(* A test function is told by what it does when run() calls it: it calls   *)
(* context.passed() ("passed"), context.error(err) ("error"), throws       *)
(* ("throws"), calls context.passed() twice ("passedTwice"), or returns    *)
(* and leaves its result to a later turn ("later").                        *)
(***************************************************************************)
MaxTests == 3

TestFunctions == {"passed", "error", "throws", "passedTwice", "later"}

\* The copy addTests makes of a test definition; running and result are
\* not set before run().
TestDefn(testFunction) ==
    [testFunction |-> testFunction, running |-> "undefined", result |-> "none"]

NoCall ==
    [op |-> "none", test |-> 0, threw |-> "none", changed |-> FALSE,
     hadResult |-> FALSE, afterRun |-> FALSE]

\* new TestSuite([], opts).  ran tells that run() was called, atRun how
\* many tests the suite had then, events are
\* the events emitted, threw the exception on its way, last the latest
\* call made on the suite from outside and what came of it.
EmptySuite(handleErrors) ==
    [opts |-> [handleErrors |-> handleErrors],
     hasRun |-> FALSE,
     testsToRun |-> <<>>,
     passes |-> 0, failures |-> 0, errors |-> 0,
     running |-> 0, started |-> 0,
     ran |-> FALSE,
     atRun |-> 0,
     events |-> <<>>,
     threw |-> "none",
     last |-> NoCall]

emit(t, ev, test) ==
    [t EXCEPT !.events = Append(@, [ev |-> ev, test |-> test])]

\* TestSuite.prototype.addTests
addTests(t, testsToRun) ==
    IF t.threw # "none" THEN t
    ELSE IF t.hasRun THEN [t EXCEPT !.threw = "TestError"]
    ELSE [t EXCEPT !.testsToRun =
              @ \o [i \in 1..Len(testsToRun) |->
                       TestDefn(testsToRun[i].testFunction)]]

\* TestSuite.prototype.addSuite
addSuite(t, otherSuite) ==
    IF t.threw # "none" THEN t
    ELSE IF t.hasRun THEN [t EXCEPT !.threw = "TestError"]
    ELSE addTests(t, otherSuite.testsToRun)

\* TestSuite.prototype.isComplete
isComplete(t) == t.running = 0 /\ t.started = Len(t.testsToRun)

\* TestSuite.prototype._finish
_finish(t) == emit(t, "complete", 0)

\* TestSuite.prototype._passed, _failed and _error: counter is the
\* counter to add to, result the result to store, ev the event to emit.
_result(t, i, counter, result, ev) ==
    LET t1 == [t EXCEPT ![counter] = @ + 1,
                        !.running = @ - 1,
                        !.testsToRun[i].result = result,
                        !.testsToRun[i].running = "false"]
        t2 == emit(t1, ev, i)
    IN IF isComplete(t2) THEN _finish(t2) ELSE t2

\* Mutant of TestContext_passed: a test that has a result is given
\* another.
TestContext_passed_again(t, i) ==
    IF t.threw # "none" THEN t
    ELSE _result(t, i, "passes", "pass", "pass")

\* TestContext.prototype.passed
TestContext_passed(t, i) ==
    IF t.threw # "none" THEN t
    ELSE IF t.testsToRun[i].running # "true"
    THEN [t EXCEPT !.threw = "TestError"]
    ELSE _result(t, i, "passes", "pass", "pass")

\* TestContext.prototype.failed
TestContext_failed(t, i) ==
    IF t.threw # "none" THEN t
    ELSE IF t.testsToRun[i].running # "true"
    THEN [t EXCEPT !.threw = "TestError"]
    ELSE _result(t, i, "failures", "fail", "fail")

\* TestContext.prototype.error: without handleErrors the error given is
\* thrown, whatever the state of the test.
TestContext_error(t, i) ==
    IF t.threw # "none" THEN t
    ELSE IF ~t.opts.handleErrors THEN [t EXCEPT !.threw = "Error"]
    ELSE IF t.testsToRun[i].running # "true"
    THEN [t EXCEPT !.threw = "TestError"]
    ELSE _result(t, i, "errors", "error", "err")

\* testDefn.testFunction.apply(self, args)
testFunction(t, i) ==
    LET fn == t.testsToRun[i].testFunction
    IN CASE fn = "passed" -> TestContext_passed(t, i)
         [] fn = "error" -> TestContext_error(t, i)
         [] fn = "throws" -> [t EXCEPT !.threw = "Error"]
         [] fn = "passedTwice" ->
                TestContext_passed(TestContext_passed(t, i), i)
         [] OTHER -> t

\* The body of the loop of run(), lines 225-257.
runTest(t, i) ==
    LET t1 == [t EXCEPT !.running = @ + 1,
                        !.started = @ + 1,
                        !.testsToRun[i].running = "true"]
        t2 == emit(t1, "test", i)
        t3 == testFunction(t2, i)
    IN IF t.opts.handleErrors /\ t3.threw # "none"
       THEN LET caught == [t3 EXCEPT !.threw = "none"]
            IN IF caught.testsToRun[i].running = "true"
               THEN TestContext_error(caught, i)
               ELSE caught
       ELSE t3

RECURSIVE runFrom(_, _)
\* The loop of run() from test i on; an exception ends it.
runFrom(t, i) ==
    IF i > Len(t.testsToRun) \/ t.threw # "none" THEN t
    ELSE runFrom(runTest(t, i), i + 1)

\* TestSuite.prototype.run; hasRun is not touched.
run(t) ==
    LET t1 == [t EXCEPT !.passes = 0, !.failures = 0, !.errors = 0,
                        !.running = 0, !.started = 0]
    IN runFrom(emit(t1, "start", 0), 1)

\* What a call from outside left: the exception is the caller's, and last
\* tells of it and whether anything of the suite was changed.
Called(before, after, op, test) ==
    LET settled == [after EXCEPT !.threw = "none", !.last = before.last]
    IN [settled EXCEPT !.last =
           [op |-> op, test |-> test, threw |-> after.threw,
            changed |-> settled # before,
            hadResult |-> IF test = 0 THEN FALSE
                          ELSE before.testsToRun[test].result # "none",
            afterRun |-> before.ran]]

InitSuite ==
    /\ generator = <<>>
    /\ fs = <<>>
    /\ couch = <<>>
    /\ store = <<>>
    /\ controller = Tree("errorHandler", NoCodes, <<StaticContent>>, <<>>, NoOverlay)
    /\ req = NewRequest
    /\ server = [quitOnError |-> TRUE, closed |-> FALSE, reported |-> FALSE]
    /\ log = <<>>
    /\ seq = <<>>
    /\ \E handleErrors \in BOOLEAN,
          testsToRun \in SeqsUpTo({TestDefn(f) : f \in TestFunctions}, MaxTests) :
          suite = addTests(EmptySuite(handleErrors), testsToRun)

SuiteAddTests ==
    /\ Len(suite.testsToRun) < MaxTests
    /\ \E f \in TestFunctions :
          suite' = Called(suite, addTests(suite, <<TestDefn(f)>>), "addTests", 0)
    /\ UNCHANGED <<controller, req, server, log, seq, store, couch, fs, generator>>

SuiteAddSuite ==
    /\ Len(suite.testsToRun) < MaxTests
    /\ \E f \in TestFunctions :
          LET otherSuite == addTests(EmptySuite(TRUE), <<TestDefn(f)>>)
          IN suite' = Called(suite, addSuite(suite, otherSuite), "addSuite", 0)
    /\ UNCHANGED <<controller, req, server, log, seq, store, couch, fs, generator>>

SuiteRun ==
    /\ ~suite.ran
    /\ LET called == [suite EXCEPT !.ran = TRUE,
                                   !.atRun = Len(suite.testsToRun)]
       IN suite' = Called(suite, run(called), "run", 0)
    /\ UNCHANGED <<controller, req, server, log, seq, store, couch, fs, generator>>

\* In a later turn a test that was started calls a method of its context.
SuitePassed ==
    /\ \E i \in 1..Len(suite.testsToRun) :
          /\ suite.testsToRun[i].running # "undefined"
          /\ suite' = Called(suite, TestContext_passed(suite, i), "passed", i)
    /\ UNCHANGED <<controller, req, server, log, seq, store, couch, fs, generator>>

SuiteFailed ==
    /\ \E i \in 1..Len(suite.testsToRun) :
          /\ suite.testsToRun[i].running # "undefined"
          /\ suite' = Called(suite, TestContext_failed(suite, i), "failed", i)
    /\ UNCHANGED <<controller, req, server, log, seq, store, couch, fs, generator>>

SuiteError ==
    /\ \E i \in 1..Len(suite.testsToRun) :
          /\ suite.testsToRun[i].running # "undefined"
          /\ suite' = Called(suite, TestContext_error(suite, i), "error", i)
    /\ UNCHANGED <<controller, req, server, log, seq, store, couch, fs, generator>>

NextSuite ==
    \/ SuiteAddTests
    \/ SuiteAddSuite
    \/ SuiteRun
    \/ SuitePassed
    \/ SuiteFailed
    \/ SuiteError

SpecSuite == InitSuite /\ [][NextSuite]_vars

SpecDriver == InitDriver /\ [][NextDriver]_vars

(***************************************************************************)
(* A RowanResponse on its own: any calls in any order.  log keeps the      *)
(* calls made and what each threw; the caller catches what is thrown.      *)
(***************************************************************************)
MaxCalls == 4

Statuses == {404, 500}

HeaderObjects ==
    {ContentType("text/html"), ContentType("text/plain"),
     [h \in {"Cache-Control"} |-> "no-cache"],
     [h \in {"Content-Type", "Cache-Control"} |->
         IF h = "Content-Type" THEN "text/plain" ELSE "no-cache"]}

Call(op, status, headers, q) ==
    [op |-> op, status |-> status, headers |-> headers, threw |-> q.threw,
     before |-> req.response]

InitResponse ==
    /\ generator = <<>>
    /\ fs = <<>>
    /\ couch = <<>>
    /\ store = <<>>
    /\ controller = Tree("errorHandler", NoCodes, <<StaticContent>>, <<>>, NoOverlay)
    /\ req = NewRequest
    /\ server = [quitOnError |-> TRUE, closed |-> FALSE, reported |-> FALSE]
    /\ log = <<>>
    /\ seq = <<>>
    /\ suite = <<>>

ResponseSetStatus ==
    /\ Len(log) < MaxCalls
    /\ \E status \in Statuses :
          LET q == setStatus(req, status)
          IN /\ req' = [q EXCEPT !.threw = "none"]
             /\ log' = Append(log, Call("setStatus", status, NoHeaders, q))
    /\ UNCHANGED <<controller, server, seq, suite, store, couch, fs, generator>>

ResponseAddHeaders ==
    /\ Len(log) < MaxCalls
    /\ \E headers \in HeaderObjects :
          LET q == addHeaders(req, headers)
          IN /\ req' = [q EXCEPT !.threw = "none"]
             /\ log' = Append(log, Call("addHeaders", 0, headers, q))
    /\ UNCHANGED <<controller, server, seq, suite, store, couch, fs, generator>>

ResponseWriteHead ==
    /\ Len(log) < MaxCalls
    /\ \E status \in Statuses, headers \in HeaderObjects :
          LET q == writeHead(req, status, headers)
          IN /\ req' = [q EXCEPT !.threw = "none"]
             /\ log' = Append(log, Call("writeHead", status, headers, q))
    /\ UNCHANGED <<controller, server, seq, suite, store, couch, fs, generator>>

ResponseWrite ==
    /\ Len(log) < MaxCalls
    /\ LET q == write(req, ContentBody)
       IN /\ req' = [q EXCEPT !.threw = "none"]
          /\ log' = Append(log, Call("write", 0, NoHeaders, q))
    /\ UNCHANGED <<controller, server, seq, suite, store, couch, fs, generator>>

ResponseEnd ==
    /\ Len(log) < MaxCalls
    /\ LET q == end(req)
       IN /\ req' = [q EXCEPT !.threw = "none"]
          /\ log' = Append(log, Call("end", 0, NoHeaders, q))
    /\ UNCHANGED <<controller, server, seq, suite, store, couch, fs, generator>>

NextResponse ==
    \/ ResponseSetStatus
    \/ ResponseAddHeaders
    \/ ResponseWriteHead
    \/ ResponseWrite
    \/ ResponseEnd

SpecResponse == InitResponse /\ [][NextResponse]_vars

(***************************************************************************)
(* Observations of a run                                                   *)
(***************************************************************************)
EventsOf(q, ev) == SelectSeq(q.trace, LAMBDA e : e.ev = ev)

\* The inner controllers invoked, in the order of their invocation.
Invoked(q) == [p \in 1..Len(EventsOf(q, "invoke")) |-> EventsOf(q, "invoke")[p].idx]

\* The inner controllers that have called back.
CalledBack(q) == {q.trace[p].idx : p \in {n \in 1..Len(q.trace) : q.trace[n].ev = "callback"}}

\* No function of the request is running and none is due to call back.
Quiescent == req.started /\ req.pending = {}

\* Some inner controller of the run deferred its completion.
SomeDelayed == \E p \in 1..Len(req.trace) : req.trace[p].mode = "async"

IsFailure(leaf) == leaf.type \in {"error", "plainError"}

\* The error of inner controller idx is one the fallback or error handler
\* was configured with (by the argument lists given to the factory).
CodeListed(idx) ==
    \E p \in 1..Len(controller.codes.list) :
        controller.codes.list[p] = controller.subs[idx].statusCode

Absorbable(idx) ==
    /\ IsFailure(controller.subs[idx])
    /\ (~controller.codes.given \/ CodeListed(idx))

\* What a run delivered: the values given to the callback, the inner
\* controllers invoked, an exception that escaped, and the final context.
Outcome(q) ==
    [calls |-> [p \in 1..Len(q.calls) |-> q.calls[p].err],
     invoked |-> Invoked(q),
     threw |-> q.threw,
     remainingPath |-> q.remainingPath,
     patternGroups |-> q.patternGroups,
     data |-> q.data,
     heap |-> q.heap,
     response |-> q.response]

\* The run of the same request in which every inner controller calls back
\* before it returns.
SyncRun == rootController(WithData(NewContext(req.path, req.method), req.data0),
                          [i \in 1..Len(controller.subs) |-> "sync"])

(***************************************************************************)
(* Claims                                                                  *)
(***************************************************************************)

\* C1: when every sub-controller of a non-empty fallback list fails with
\* an absorbable error, then once nothing of the request is left to run
\* the fallback has called its callback exactly once, with the error of
\* the last sub-controller of the list.
C1_FallbackExhaustion ==
    (/\ controller.kind = "fallback"
     /\ Len(controller.subs) >= 1
     /\ \A i \in 1..Len(controller.subs) : Absorbable(i)
     /\ Quiescent)
    => /\ Len(req.calls) = 1
       /\ req.calls[1].err =
              LeafError(controller.subs[Len(controller.subs)], Len(controller.subs))

\* C2: the callback handed to a composing controller is never called more
\* than once, whichever inner controllers call back at once or later.
C2_CallbackAtMostOnce == Len(req.calls) <= 1

C2_Witness ==
    /\ controller.kind = "fallback"
    /\ Len(Invoked(req)) = 2
    /\ \A p \in 1..Len(req.trace) :
           req.trace[p].ev = "invoke" => req.trace[p].mode = "async"
    /\ Quiescent
    /\ Len(req.calls) = 1

\* C3: once a run has come to rest, it has delivered the same values to
\* the outer callback, invoked the same inner controllers in the same
\* order and left the same context as the run of the same request in
\* which every inner controller completes synchronously.
C3_SyncAsyncSameOutcome ==
    Quiescent => Outcome(req) = Outcome(SyncRun)

C3_Witness ==
    /\ controller.kind = "subtreeData"
    /\ Quiescent
    /\ SomeDelayed
    /\ Len(req.calls) = 1

\* C4: once a sub-controller of a fallback has called back with success,
\* the fallback has called its callback with success and no sub-controller
\* later in the list has been invoked.
C4_FallbackShortCircuit ==
    controller.kind = "fallback" =>
        \A i \in CalledBack(req) :
            Responds(controller.subs[i]) =>
                /\ Len(req.calls) >= 1
                /\ req.calls[1].err = NoErr
                /\ \A p \in 1..Len(Invoked(req)) : Invoked(req)[p] <= i

C4_Witness ==
    /\ controller.kind = "fallback"
    /\ Len(controller.subs) = 3
    /\ Absorbable(1) /\ controller.subs[2].type = "content" /\ Absorbable(3)
    /\ 2 \in CalledBack(req)
    /\ Len(req.calls) = 1

\* C5: with a validCodes list, once a sub-controller has called back with
\* an error whose status code is not in the list, the fallback has called
\* its callback with that very error and has invoked no sub-controller
\* after it.
C5_FallbackEscalation ==
    (controller.kind = "fallback" /\ controller.codes.given) =>
        \A i \in CalledBack(req) :
            (IsFailure(controller.subs[i]) /\ ~CodeListed(i)) =>
                /\ Len(req.calls) >= 1
                /\ req.calls[1].err = LeafError(controller.subs[i], i)
                /\ \A p \in 1..Len(Invoked(req)) : Invoked(req)[p] <= i

C5_Witness ==
    /\ controller.kind = "fallback"
    /\ controller.codes.given
    /\ Len(controller.subs) >= 2
    /\ 1 \in CalledBack(req)
    /\ IsFailure(controller.subs[1]) /\ ~CodeListed(1)
    /\ Len(req.calls) = 1

\* C6: a fallback given an empty list of sub-controllers calls its
\* callback exactly once, with a 404 error, and invokes no sub-controller.
C6_EmptyFallbackNotFound ==
    (controller.kind = "fallback" /\ controller.subs = <<>> /\ req.started)
    => /\ Len(req.calls) = 1
       /\ req.calls[1].err.statusCode = 404
       /\ Invoked(req) = <<>>

\* C7: a fallback has at most one sub-controller in flight; it invokes the
\* sub-controllers in list order, none skipped and none twice, and invokes
\* sub-controller i+1 only after sub-controller i has called back with an
\* absorbable error.
C7_FallbackSequential ==
    controller.kind = "fallback" =>
        /\ Cardinality(req.pending) <= 1
        /\ \A p \in 1..Len(Invoked(req)) : Invoked(req)[p] = p
        /\ \A p \in 1..Len(req.trace) :
               (req.trace[p].ev = "invoke" /\ req.trace[p].idx > 1) =>
                   /\ Absorbable(req.trace[p].idx - 1)
                   /\ \E n \in 1..(p - 1) :
                          /\ req.trace[n].ev = "callback"
                          /\ req.trace[n].idx = req.trace[p].idx - 1

C7_Witness ==
    /\ controller.kind = "fallback"
    /\ Len(Invoked(req)) = 3
    /\ SomeDelayed
    /\ req.pending = {3}

\* C8: once the wrapped controller has called back with an error whose
\* status code is not in unhandledCodes (or no unhandledCodes were given),
\* the error handler has set the status to the error's code, added a
\* Content-Type header, written a body of the code and the description,
\* ended the response, and called its callback with success.
C8_ErrorHandlerAbsorbs ==
    (/\ controller.kind = "errorHandler"
     /\ 1 \in CalledBack(req)
     /\ controller.subs[1].type = "error"
     /\ ~CodeListed(1))
    => /\ req.response.nsr =
              <<NsrCall("writeHead", controller.subs[1].statusCode, ContentType("text/html"),
                        NoBody),
                NsrCall("write", 0, NoHeaders,
                        [kind |-> "h1", code |-> controller.subs[1].statusCode,
                         text |-> controller.subs[1].description]),
                NsrCall("end", 0, NoHeaders, NoBody)>>
       /\ req.calls = <<[err |-> NoErr, data |-> req.data]>>
       /\ req.threw = "none"

C8_Witness ==
    /\ controller.kind = "errorHandler"
    /\ controller.codes = [given |-> TRUE, list |-> <<500>>]
    /\ controller.subs[1] = Leaf("error", 404, "Missing")
    /\ 1 \in CalledBack(req)
    /\ req.response.status = 404

\* C9: once the wrapped controller has called back with an error whose
\* status code is in unhandledCodes, the error handler has called its
\* callback with that same error and nothing has been written to the
\* response: no status, no header, no body, no end.
C9_ErrorHandlerPassesOn ==
    (/\ controller.kind = "errorHandler"
     /\ 1 \in CalledBack(req)
     /\ controller.subs[1].type = "error"
     /\ CodeListed(1))
    => /\ req.calls = <<[err |-> LeafError(controller.subs[1], 1),
                         data |-> req.data]>>
       /\ req.response = RowanResponse

C9_Witness ==
    /\ controller.kind = "errorHandler"
    /\ controller.codes = [given |-> TRUE, list |-> <<500>>]
    /\ controller.subs[1] = Leaf("error", 500, "Broken")
    /\ 1 \in CalledBack(req)
    /\ Len(req.calls) = 1

\* C10: whenever a subtree-data controller calls its callback, with
\* success or with an error, context.data is at that moment the object it
\* was before the controller was entered.
C10_SubtreeDataRestored ==
    controller.kind = "subtreeData" =>
        \A p \in 1..Len(req.calls) : req.calls[p].data = NewRequest.data

C10_Witness ==
    /\ controller.kind = "subtreeData"
    /\ SomeDelayed
    /\ Len(req.calls) = 1
    /\ req.calls[1].err # NoErr
    /\ Len(req.heap) = 2

C12_SubtreeWritesInvisible ==
    (controller.kind = "subtreeData" /\ req.calls # <<>>) =>
        /\ req.heap[NewRequest.data] = [proto |-> 0, own |-> req.data0]
        /\ \A k \in Keys : lookup(req.heap, req.data, k) = req.data0[k]

C12_Witness ==
    /\ controller.kind = "subtreeData"
    /\ controller.subs[1] \in {SetData, DeleteData}
    /\ req.calls # <<>>
    /\ req.heap[2].own # req.data0

MatchingRoutes ==
    {i \in 1..Len(controller.patterns) : exec(controller.patterns[i], req.path).matched}

FirstMatchingRoute == CHOOSE i \in MatchingRoutes : \A j \in MatchingRoutes : i <= j

\* C14: when routes match the path, the router invokes exactly one view,
\* that of the first matching route in declaration order.
C14_RouterFirstMatch ==
    (controller.kind = "router" /\ req.started /\ MatchingRoutes # {}) =>
        Invoked(req) = <<FirstMatchingRoute>>

C14_Witness ==
    /\ controller.kind = "router"
    /\ Cardinality(MatchingRoutes) = 2
    /\ controller.patterns[1] # controller.patterns[2]
    /\ Invoked(req) = <<1>>

\* C15: after a route has matched a prefix of length n of the remaining
\* path, the view is invoked with a remaining path that is the path
\* without its first n characters, and the context keeps that path.
C15_RouterConsumesPrefix ==
    (controller.kind = "router" /\ req.seen.at) =>
        LET lit == controller.patterns[Invoked(req)[1]].lit
        IN SubSeq(req.path, 1, Len(lit)) = lit =>
               /\ req.seen.remainingPath =
                      SubSeq(req.path, Len(lit) + 1, Len(req.path))
               /\ req.remainingPath = req.seen.remainingPath

C15_Witness ==
    /\ controller.kind = "router"
    /\ req.seen.at
    /\ req.path = <<"a", "b">>
    /\ controller.patterns[Invoked(req)[1]].lit = <<"a">>
    /\ req.seen.remainingPath = <<"b">>

\* C16: after a route with capture groups has matched, context.patternGroups
\* is an ordered sequence with one element per captured sub-match.
C16_PatternGroupsSequence ==
    (/\ controller.kind = "router"
     /\ req.seen.at
     /\ controller.patterns[Invoked(req)[1]].capture)
    => /\ req.seen.patternGroups.present
       /\ req.seen.patternGroups.isArray
       /\ req.seen.patternGroups.items =
              exec(controller.patterns[Invoked(req)[1]], req.path).groups

\* C17: when no route matches (the route list may be empty), the router
\* calls back exactly once, with a 404 error, invokes no view and leaves
\* the remaining path and the pattern groups as they were.
C17_RouterNotFound ==
    (controller.kind = "router" /\ req.started /\ MatchingRoutes = {}) =>
        /\ Len(req.calls) = 1
        /\ req.calls[1].err.statusCode = 404
        /\ Invoked(req) = <<>>
        /\ req.remainingPath = req.path
        /\ req.patternGroups = NewRequest.patternGroups

C17_Witness ==
    /\ controller.kind = "router"
    /\ Len(controller.patterns) = 2
    /\ req.path # <<>>
    /\ MatchingRoutes = {}
    /\ Len(req.calls) = 1

\* The context was handed on as the request brought it.
SeenUntouched ==
    /\ req.seen.remainingPath = req.path
    /\ req.seen.patternGroups = NewRequest.patternGroups
    /\ req.seen.data = req.data0
    /\ req.seen.response = RowanResponse

\* C18: a method map invokes the controller mapped to the request's
\* method if there is one, else the default controller if there is one,
\* else calls back with a 405 error; one of the three and no other
\* happens, and the method map changes nothing in the context.
C18_MethodMapDispatch ==
    (controller.kind = "methodMap" /\ req.started) =>
        LET mapped == IF req.method = "GET" THEN 1 ELSE 2
            own405 == \E p \in 1..Len(req.calls) : req.calls[p].err = Http405
        IN IF controller.subs[mapped] # Undefined
           THEN Invoked(req) = <<mapped>> /\ SeenUntouched /\ ~own405
           ELSE IF controller.subs[3] # Undefined
           THEN Invoked(req) = <<3>> /\ SeenUntouched /\ ~own405
           ELSE /\ Invoked(req) = <<>>
                /\ Len(req.calls) = 1 /\ own405
                /\ req = [WithData(NewContext(req.path, req.method), req.data0)
                              EXCEPT !.calls = req.calls, !.sent = req.sent]

C18_Witness ==
    /\ controller.kind = "methodMap"
    /\ req.method = "POST"
    /\ controller.subs[1] # Undefined
    /\ controller.subs[2] = Undefined
    /\ controller.subs[3] = StaticContent
    /\ Invoked(req) = <<3>>
    /\ Len(req.calls) = 1

\* C19: when the root controller calls back with an error that has no
\* status code, the server reports a generic 500 error: the response gets
\* status 500, and the error reported is not the raw one.
C19_DriverGeneric500 ==
    \A p \in 1..Len(req.calls) :
        (req.calls[p].err # NoErr /\ req.calls[p].err.statusCode = 0) =>
            /\ Len(req.reports) = Len(req.calls)
            /\ req.reports[p].statusCode = 500
            /\ req.reports[p] # req.calls[p].err
            /\ req.response.nsr[1] = NsrCall("writeHead", 500, ContextType, NoBody)
            /\ finished(req)

C19_Witness ==
    /\ req.driven
    /\ controller.kind = "router"
    /\ Len(req.calls) = 1
    /\ req.calls[1].err = PlainError(1)
    /\ SomeDelayed

\* C20: when the root controller calls back with success and the response
\* has not been finished, the server reports a 504 error; when it has
\* been finished, the server writes nothing more.
C20_DriverSanityCheck ==
    (req.driven /\ Len(req.calls) = 1 /\ req.calls[1].err = NoErr) =>
        LET inner == req.trace[Len(req.trace)].idx
        IN IF controller.subs[inner] = NoResponse
           THEN /\ Len(req.reports) = 1
                /\ req.reports[1].statusCode = 504
                /\ req.response.nsr[1] = NsrCall("writeHead", 504, ContextType, NoBody)
                /\ finished(req)
           ELSE /\ req.reports = <<>>
                /\ req.response.nsr[Len(req.response.nsr)].op = "end"
                /\ Cardinality({n \in 1..Len(req.response.nsr) :
                                   req.response.nsr[n].op = "end"}) = 1
                /\ Cardinality({n \in 1..Len(req.response.nsr) :
                                   req.response.nsr[n].op = "writeHead"}) = 1

C20_Witness ==
    /\ req.driven
    /\ controller.kind = "fallback"
    /\ Len(controller.subs) = 2
    /\ controller.subs[2] = NoResponse
    /\ Len(req.calls) = 1
    /\ req.calls[1].err = NoErr
    /\ Len(req.reports) = 1

\* C21: with quitOnError the server is closed once the first error that
\* reached the server's callback has been reported, and not before;
\* without it the server is never closed because of an error and goes on
\* serving requests.
C21_QuitOnErrorPolicy ==
    /\ server.quitOnError => (server.closed <=> server.reported)
    /\ ~server.quitOnError =>
          /\ ~server.closed
          /\ (req.driven /\ req.pending = {} /\ req.threw = "none") =>
                 ENABLED DriverNextRequest

C21_Witness ==
    /\ ~server.quitOnError
    /\ server.reported
    /\ req.driven
    /\ req.reports = <<>>
    /\ Len(req.calls) = 1
    /\ finished(req)

\* The calls of the log that send content.
Flushes == {n \in 1..Len(log) : log[n].op \in {"write", "end"}}

\* The calls before the first that sent content.
BeforeFlush ==
    {n \in 1..Len(log) : \A m \in Flushes : n < m}

\* The status most recently set among the calls of ns, 200 if none.
StatusSet(ns) ==
    LET sets == {n \in ns : log[n].op \in {"setStatus", "writeHead"}}
    IN IF sets = {} THEN 200
       ELSE log[CHOOSE n \in sets : \A m \in sets : m <= n].status

\* The headers added by the calls of ns, a later value replacing an
\* earlier one of the same name.
HeadersAdded(ns) ==
    LET adds(h) == {n \in ns : /\ log[n].op \in {"addHeaders", "writeHead"}
                               /\ h \in DOMAIN log[n].headers}
        names == {h \in {"Content-Type", "Cache-Control"} : adds(h) # {}}
    IN [h \in names |->
           log[CHOOSE n \in adds(h) : \A m \in adds(h) : m <= n].headers[h]]

NsrHeads ==
    {p \in 1..Len(req.response.nsr) : req.response.nsr[p].op = "writeHead"}

\* C22: whatever the calls of setStatus, addHeaders, writeHead, write and
\* end, the node response gets at most one writeHead; it comes before any
\* write or end that reaches the node response; and it carries the status
\* most recently set (200 if none was) and the headers added so far, merged.
C22_DeferredHead ==
    /\ Cardinality(NsrHeads) <= 1
    /\ req.response.nsr # <<>> =>
          /\ NsrHeads = {1}
          /\ req.response.nsr[1].status = StatusSet(BeforeFlush)
          /\ req.response.nsr[1].headers = HeadersAdded(BeforeFlush)
    /\ Len(req.response.nsr) =
          IF Flushes = {} THEN 0 ELSE Cardinality(Flushes) + 1
    /\ \A p \in 2..Len(req.response.nsr) :
          req.response.nsr[p].op \in {"write", "end"}

C22_Witness ==
    /\ Len(log) = MaxCalls
    /\ log[1].op = "writeHead"
    /\ log[2].op = "addHeaders"
    /\ log[2].headers = ContentType("text/html")
    /\ log[1].headers # log[2].headers
    /\ DOMAIN log[1].headers = {"Content-Type", "Cache-Control"}
    /\ log[3].op = "write"
    /\ log[4].op = "end"
    /\ req.response.nsr[1].headers # log[1].headers
    /\ req.response.nsr[1].headers # log[2].headers

\* The response as call n of the log left it.
ResponseAfter(n) ==
    IF n = Len(log) THEN req.response ELSE log[n + 1].before

\* C23: once the first write or end has sent the head, every setStatus,
\* addHeaders and writeHead throws a RowanResponseError and leaves the
\* status and the headers as they were.
C23_HeadCallsThrowAfterFlush ==
    \A n \in 1..Len(log) :
        log[n].op \in {"setStatus", "addHeaders", "writeHead"} =>
            IF n \in BeforeFlush
            THEN log[n].threw = "none"
            ELSE /\ log[n].threw = "RowanResponseError"
                 /\ ResponseAfter(n) = log[n].before

C23_Witness ==
    /\ Len(log) = 4
    /\ log[1].op = "end"
    /\ log[2].op = "setStatus"
    /\ log[3].op = "addHeaders"
    /\ log[4].op = "writeHead"
    /\ log[2].threw = "RowanResponseError"
    /\ log[4].threw = "RowanResponseError"
    /\ req.response.status = 200
    /\ req.response.headers = NoHeaders

NsrEnds ==
    {p \in 1..Len(req.response.nsr) : req.response.nsr[p].op = "end"}

\* C24: a call of the server's callback that comes when the response is
\* already finished is ignored: the node response gets no second head and
\* no second end, and nothing is thrown.
C24_LateSignalIgnored ==
    (req.driven /\ \E p \in 1..Len(req.sent) : req.sent[p]) =>
        /\ Cardinality(NsrHeads) <= 1
        /\ Cardinality(NsrEnds) <= 1
        /\ req.threw = "none"

\* C25: a controller made by createStaticContent(content) with no content
\* type responds with status 200, Content-Type text/plain and the content
\* as the whole body, ends the response, and then calls its callback once,
\* with success.
C25_StaticContentDefault ==
    (req.started /\ log # <<>> /\ log[1].contentType = NotGiven) =>
        /\ req.response.nsr =
              <<NsrCall("writeHead", 200, ContentType("text/plain"), NoBody),
                NsrCall("write", 0, NoHeaders, log[1].content),
                NsrCall("end", 0, NoHeaders, NoBody)>>
        /\ Len(req.calls) = 1
        /\ req.calls[1].err = NoErr
        /\ req.sent = <<TRUE>>

\* The positions in the trace of the invocations of finally_do.
FinallyRuns == {p \in 1..Len(seq.trace) : seq.trace[p].fn = 0}

\* The sequence has come to rest.
SequenceOver == seq.started /\ seq.pending = {}

\* C26: a finally_do function that was given is invoked once in a
\* sequence: never twice, never before a step that runs, and once the
\* sequence is over it has been invoked, whether the steps ran to the end,
\* one threw, or one called abort().
C26_FinallyOnceAndLast ==
    seq.my_opts.finally_do # NoFinally =>
        /\ Cardinality(FinallyRuns) <= 1
        /\ \A p \in FinallyRuns : p = Len(seq.trace)
        /\ SequenceOver => Cardinality(FinallyRuns) = 1

C26_Witness ==
    /\ seq.my_opts.finally_do # NoFinally
    /\ SequenceOver
    /\ Len(seq.steps) = 3
    /\ seq.steps[1].how = "callAsync"
    /\ seq.steps[2].abort
    /\ seq.steps[2].how = "throw"
    /\ seq.trace[Len(seq.trace)] = [fn |-> 0, err |-> 2, val |-> Null]

\* What the function invoked at position p of the trace handed on.
HandedOn(p) ==
    LET fn == seq.trace[p].fn
    IN IF seq.steps[fn].how \in {"throw", "callAsyncError"}
       THEN [err |-> fn, val |-> Null]
       ELSE [err |-> Null, val |-> fn]

\* C27: after a step has called abort() no step is invoked any more, only
\* finally_do; and the steps that are invoked are invoked in the order
\* given, each at most once, the first with no error and each later one
\* with the result, or the error, of the step before it.
C27_AbortStopsSteps ==
    \A p \in 1..Len(seq.trace) :
        /\ (\E a \in seq.aborts : a < p) => seq.trace[p].fn = 0
        /\ seq.trace[p].fn # 0 =>
              /\ seq.trace[p].fn = p
              /\ IF p = 1
                 THEN seq.trace[p].err = Null /\ seq.trace[p].val = Null
                 ELSE /\ seq.trace[p].err = HandedOn(p - 1).err
                      /\ seq.trace[p].val = HandedOn(p - 1).val

C27_Witness ==
    /\ SequenceOver
    /\ Len(seq.steps) = 3
    /\ seq.steps[1].how = "throw"
    /\ seq.steps[2].how = "callAsync"
    /\ seq.steps[2].abort
    /\ ~seq.steps[1].abort
    /\ Len(seq.trace) = 3
    /\ seq.trace[3].fn = 0

\* The positions of the 'complete' events among the events emitted.
Completes ==
    {p \in 1..Len(suite.events) : suite.events[p].ev = "complete"}

AllHaveResult ==
    \A i \in 1..Len(suite.testsToRun) : suite.testsToRun[i].result # "none"

\* C28: after run(), for a suite of any size, with no tests too, and
\* with the tests it had at run(): 'complete' is emitted at most once, it
\* has been emitted once every test has a result, and it is not emitted
\* while a test has none.
C28_CompleteOnce ==
    (suite.ran /\ Len(suite.testsToRun) = suite.atRun) =>
        /\ Cardinality(Completes) <= 1
        /\ AllHaveResult => Cardinality(Completes) = 1
        /\ Completes # {} => AllHaveResult

\* The counters of the suite add up to the tests started.
CountersAddUp ==
    suite.ran =>
        suite.passes + suite.failures + suite.errors + suite.running
            = suite.started

\* C29 as stated: a call of passed(), failed() or error() for a test that
\* has a result throws a TestError and changes nothing of the suite, no
\* counter and no event; and passes + failures + errors + running is the
\* number of tests started.
C29_OneResultTestError ==
    /\ CountersAddUp
    /\ (suite.last.op \in {"passed", "failed", "error"} /\ suite.last.hadResult) =>
          /\ suite.last.threw = "TestError"
          /\ ~suite.last.changed

\* C29 amended: such a call changes nothing of the suite and throws: a
\* TestError, except that error() in a suite made with handleErrors false
\* throws the error it was given; and the counters add up.
C29_OneResult ==
    /\ CountersAddUp
    /\ (suite.last.op \in {"passed", "failed", "error"} /\ suite.last.hadResult) =>
          /\ ~suite.last.changed
          /\ suite.last.threw =
                IF suite.last.op = "error" /\ ~suite.opts.handleErrors
                THEN "Error" ELSE "TestError"

C29_Witness ==
    /\ suite.last.op = "failed"
    /\ suite.last.hadResult
    /\ suite.testsToRun[suite.last.test].result = "pass"
    /\ suite.running = 1
    /\ suite.passes = 1
    /\ suite.started = 2

\* C30: once run() has been called, addTests() and addSuite() throw a
\* TestError and leave the tests of the suite as they are.
C30_NoTestsAfterRun ==
    (suite.last.op \in {"addTests", "addSuite"} /\ suite.last.afterRun) =>
        /\ suite.last.threw = "TestError"
        /\ ~suite.last.changed


\* ---------------------------------------------------------------------
\* The in-memory object store (rowan/store/memory.js).

Uuids == {"object-1", "object-2"}

\* The number of calls made on one store.
MaxStoreCalls == 3

\* The value of a property the object does not have (undefined).
Missing == 0

Values == {1, 2}

KeyNames == {"key1", "key2"}

SetNames == {"set1", "set2"}

EmptyDict == [p \in {} |-> Missing]

Objects == {EmptyDict, [foo |-> 1], [foo |-> 2]}

\* opts[index_type]: not given at all, or the index names in the order of
\* the dictionary, each with the property it indexes.
NotInOpts == [given |-> FALSE, entries |-> <<>>]

Indexing(names) ==
    [given |-> TRUE,
     entries |-> [i \in 1..Len(names) |-> [index |-> names[i], property |-> "foo"]]]

Opts ==
    { [keys |-> NotInOpts, sets |-> NotInOpts],
      [keys |-> Indexing(<<"key1">>), sets |-> NotInOpts],
      [keys |-> Indexing(<<"key2">>), sets |-> Indexing(<<>>)],
      [keys |-> NotInOpts, sets |-> Indexing(<<"set1">>)],
      [keys |-> Indexing(<<>>), sets |-> Indexing(<<"set2">>)],
      [keys |-> Indexing(<<"key1">>), sets |-> Indexing(<<"set1">>)] }

NoError == ""

\* What one slot of this.data holds: nothing, the uuid of a key index, the
\* uuids of a set index, or the stored form of an object.
NoEntry == [type |-> "none"]

KeyEntry(uuid) == [type |-> "key", uuid |-> uuid]

SetEntry(uuids) == [type |-> "set", uuids |-> uuids]

\* The slot of an index: unique per index name and value.
create_index(index, value) == <<index, value>>

IndexSlots == (KeyNames \cup SetNames) \X ({Missing} \cup Values)

\* this.data of a new store. The slots of the uuids and the slots of the
\* indices live in one dictionary under disjoint names.
InMemoryStore ==
    [objects |-> [u \in Uuids |-> NoEntry],
     indices |-> [x \in IndexSlots |-> NoEntry]]

PropertyOf(object, property) ==
    IF property \in DOMAIN object THEN object[property] ELSE Missing

\* JSON.stringify leaves out the members whose value is undefined.
Defined(dict) ==
    [n \in {m \in DOMAIN dict : dict[m] # Missing} |-> dict[n]]

stringify(obj_store) ==
    [type |-> "raw",
     object |-> Defined(obj_store.object),
     keys |-> Defined(obj_store.keys),
     sets |-> Defined(obj_store.sets)]

parse(raw) == [object |-> raw.object, keys |-> raw.keys, sets |-> raw.sets]

With(dict, index, value) ==
    [n \in DOMAIN dict \cup {index} |-> IF n = index THEN value ELSE dict[n]]

Without(dict, index) == [n \in DOMAIN dict \ {index} |-> dict[n]]

_set(data, uuid, raw_content) ==
    [data |-> [data EXCEPT !.objects[uuid] = raw_content], err |-> NoError]

_get(data, uuid) == data.objects[uuid]

_set_key(data, uuid, index, value) ==
    IF data.indices[create_index(index, value)] # NoEntry
    THEN [data |-> data, err |-> "Can't set a currently set key."]
    ELSE [data |-> [data EXCEPT !.indices[create_index(index, value)] = KeyEntry(uuid)],
          err |-> NoError]

\* Setting a member of a string (the slot of a key index) changes nothing.
_add_to_set(data, uuid, index, value) ==
    LET slot == create_index(index, value)
        entry == data.indices[slot]
    IN  [data |->
            CASE entry = NoEntry ->
                    [data EXCEPT !.indices[slot] = SetEntry({uuid})]
              [] entry.type = "set" ->
                    [data EXCEPT !.indices[slot] = SetEntry(entry.uuids \cup {uuid})]
              [] OTHER -> data,
         err |-> NoError]

_rm_index(data, uuid, index, value) ==
    LET slot == create_index(index, value)
        entry == data.indices[slot]
    IN  CASE entry.type = "key" ->
                [data |-> [data EXCEPT !.indices[slot] = NoEntry], err |-> NoError]
          [] entry.type = "set" ->
                [data |-> [data EXCEPT !.indices[slot] = SetEntry(entry.uuids \ {uuid})],
                 err |-> NoError]
          [] OTHER ->
                [data |-> data, err |-> "Can't delete a non-existent index."]

Change(fn, uuid, index, value) ==
    [fn |-> fn, uuid |-> uuid, index |-> index, value |-> value]

MakeChange(data, change) ==
    CASE change.fn = "_set_key" ->
            _set_key(data, change.uuid, change.index, change.value)
      [] change.fn = "_add_to_set" ->
            _add_to_set(data, change.uuid, change.index, change.value)
      [] OTHER ->
            _rm_index(data, change.uuid, change.index, change.value)

\* The changes are popped from the end of the list and made in series; the
\* first error ends the series, the changes already made stay.
RECURSIVE _process_changes(_, _)
_process_changes(data, changes) ==
    IF changes = <<>>
    THEN [data |-> data, err |-> NoError]
    ELSE LET made == MakeChange(data, changes[Len(changes)])
         IN  IF made.err # NoError
             THEN made
             ELSE _process_changes(made.data, SubSeq(changes, 1, Len(changes) - 1))

query_uuids(data, index, value) ==
    LET result == data.indices[create_index(index, value)]
    IN  CASE result.type = "key" -> {result.uuid}
          [] result.type = "set" -> result.uuids
          [] OTHER -> {}

\* What the callback of get receives.
get(data, uuid) ==
    LET raw_data == _get(data, uuid)
    IN  IF raw_data # NoEntry
        THEN [isNull |-> FALSE, object |-> parse(raw_data).object]
        ELSE [isNull |-> TRUE, object |-> EmptyDict]

\* What a call leaves: this.data, the error handed to the callback, and the
\* exception that left the call instead of a callback.
StoreResult(data, err, threw) == [data |-> data, err |-> err, threw |-> threw]

\* set's _process_index: the entries recorded in obj_store and the changes.
RECURSIVE set_process_index(_, _, _, _, _, _)
set_process_index(entries, i, add_function, uuid, object, acc) ==
    IF i > Len(entries)
    THEN acc
    ELSE LET index == entries[i].index
             value == PropertyOf(object, entries[i].property)
         IN  set_process_index(entries, i + 1, add_function, uuid, object,
                [dict |-> With(acc.dict, index, value),
                 changes |-> Append(acc.changes,
                                    Change(add_function, uuid, index, value))])

set_overwrites(data, uuid, object, opts) ==
    LET keys == set_process_index(opts.keys.entries, 1, "_set_key", uuid, object,
                    [dict |-> EmptyDict, changes |-> <<>>])
        sets == set_process_index(opts.sets.entries, 1, "_add_to_set", uuid, object,
                    [dict |-> EmptyDict, changes |-> keys.changes])
        obj_store == [object |-> object, keys |-> keys.dict, sets |-> sets.dict]
        done == _process_changes(data, sets.changes)
    IN  IF done.err # NoError
        THEN StoreResult(done.data, done.err, "")
        ELSE StoreResult(_set(done.data, uuid, stringify(obj_store)).data, NoError, "")

set(data, uuid, object, opts) ==
    IF _get(data, uuid) # NoEntry
    THEN StoreResult(data, "Can't set an existing uuid: update it instead.", "")
    ELSE LET keys == set_process_index(opts.keys.entries, 1, "_set_key", uuid, object,
                        [dict |-> EmptyDict, changes |-> <<>>])
             sets == set_process_index(opts.sets.entries, 1, "_add_to_set", uuid, object,
                        [dict |-> EmptyDict, changes |-> keys.changes])
             obj_store == [object |-> object, keys |-> keys.dict, sets |-> sets.dict]
             done == _process_changes(data, sets.changes)
         IN  IF done.err # NoError
             THEN StoreResult(done.data, done.err, "")
             ELSE StoreResult(_set(done.data, uuid, stringify(obj_store)).data,
                              NoError, "")

\* The first loop of update's _process_index. new_value is one variable of
\* the whole function: the comparison reads what the previous turn of the
\* loop left in it, undefined on the first turn.
RECURSIVE update_new_indices(_, _, _, _, _, _)
update_new_indices(entries, i, add_function, uuid, object, acc) ==
    IF i > Len(entries)
    THEN acc
    ELSE LET index == entries[i].index
             old_value == PropertyOf(acc.dict, index)
             new_value == PropertyOf(object, entries[i].property)
             removed == IF old_value # Missing
                        THEN Append(acc.changes,
                                    Change("_rm_index", uuid, index, old_value))
                        ELSE acc.changes
         IN  IF old_value # Missing /\ old_value = acc.new_value
             THEN update_new_indices(entries, i + 1, add_function, uuid, object, acc)
             ELSE update_new_indices(entries, i + 1, add_function, uuid, object,
                    [dict |-> With(acc.dict, index, new_value),
                     changes |-> Append(removed,
                                        Change(add_function, uuid, index, new_value)),
                     new_value |-> new_value])

\* The second loop: the indices the object had that opts no longer names.
RECURSIVE update_old_indices(_, _, _, _, _)
update_old_indices(names, i, uuid, named, acc) ==
    IF i > Len(names)
    THEN acc
    ELSE IF names[i] \in named
         THEN update_old_indices(names, i + 1, uuid, named, acc)
         ELSE update_old_indices(names, i + 1, uuid, named,
                [dict |-> Without(acc.dict, names[i]),
                 changes |-> Append(acc.changes,
                                    Change("_rm_index", uuid, names[i],
                                           acc.dict[names[i]])),
                 new_value |-> acc.new_value])

\* The members of a dictionary in some order (the loops above do not depend
\* on it: each member is handled on its own).
RECURSIVE InOrder(_)
InOrder(names) ==
    IF names = {}
    THEN <<>>
    ELSE LET n == CHOOSE m \in names : TRUE
         IN  <<n>> \o InOrder(names \ {n})

\* update's _process_index for one index type. Reading a member of
\* opts[index_type] when opts has no such member is a TypeError.
update_process_index(dict, given, add_function, uuid, object, changes) ==
    LET first == update_new_indices(given.entries, 1, add_function, uuid, object,
                    [dict |-> dict, changes |-> changes, new_value |-> Missing])
        named == {given.entries[i].index : i \in 1..Len(given.entries)}
        second == update_old_indices(InOrder(DOMAIN first.dict), 1, uuid, named, first)
    IN  IF DOMAIN first.dict # {} /\ ~given.given
        THEN [dict |-> first.dict, changes |-> first.changes, threw |-> "TypeError"]
        ELSE [dict |-> second.dict, changes |-> second.changes, threw |-> ""]

update(data, uuid, object, opts) ==
    IF _get(data, uuid) = NoEntry
    THEN StoreResult(data, NoError, "SyntaxError")
    ELSE LET object_store == parse(_get(data, uuid))
             keys == update_process_index(object_store.keys, opts.keys, "_set_key",
                                          uuid, object, <<>>)
             sets == update_process_index(object_store.sets, opts.sets, "_add_to_set",
                                          uuid, object, keys.changes)
             done == _process_changes(data, sets.changes)
             saved == [object |-> object_store.object,
                       keys |-> keys.dict, sets |-> sets.dict]
         IN  CASE keys.threw # "" -> StoreResult(data, NoError, keys.threw)
               [] sets.threw # "" -> StoreResult(data, NoError, sets.threw)
               [] done.err # NoError -> StoreResult(done.data, done.err, "")
               [] OTHER ->
                    StoreResult(_set(done.data, uuid, stringify(saved)).data,
                                NoError, "")

remove(data, uuid) ==
    StoreResult([data EXCEPT !.objects[uuid] = NoEntry], NoError, "")

\* The record of the latest call on the store: its arguments, what it handed
\* to its callback, and what the store held for the uuid before the call.
NoStoreCall ==
    [op |-> "none", uuid |-> "", object |-> EmptyDict,
     opts |-> [keys |-> NotInOpts, sets |-> NotInOpts],
     err |-> NoError, threw |-> "", held |-> FALSE,
     old |-> [object |-> EmptyDict, keys |-> EmptyDict, sets |-> EmptyDict],
     changed |-> FALSE, clashes |-> {}, calls |-> 0]

\* The key indices of opts under which another stored object is recorded with
\* the value the object has.
Clashes(data, uuid, object, opts) ==
    {i \in 1..Len(opts.keys.entries) :
        LET index == opts.keys.entries[i].index
            value == PropertyOf(object, opts.keys.entries[i].property)
        IN  \E other \in DOMAIN data.objects \ {uuid} :
                /\ _get(data, other) # NoEntry
                /\ value # Missing
                /\ PropertyOf(parse(_get(data, other)).keys, index) = value}

StoreCall(op, uuid, object, opts, done) ==
    [data |-> done.data,
     last |-> [op |-> op, uuid |-> uuid, object |-> object, opts |-> opts,
               err |-> done.err, threw |-> done.threw,
               held |-> _get(store.data, uuid) # NoEntry,
               old |-> IF _get(store.data, uuid) # NoEntry
                       THEN parse(_get(store.data, uuid))
                       ELSE NoStoreCall.old,
               changed |-> done.data # store.data,
               clashes |-> {opts.keys.entries[i].index :
                              i \in Clashes(store.data, uuid, object, opts)},
               calls |-> store.last.calls + 1]]

InitStore ==
    /\ generator = <<>>
    /\ fs = <<>>
    /\ couch = <<>>
    /\ store = [data |-> InMemoryStore, last |-> NoStoreCall]
    /\ controller = Tree("errorHandler", NoCodes, <<StaticContent>>, <<>>, NoOverlay)
    /\ req = NewRequest
    /\ server = [quitOnError |-> TRUE, closed |-> FALSE, reported |-> FALSE]
    /\ log = <<>>
    /\ seq = <<>>
    /\ suite = <<>>

StoreSet ==
    /\ store.last.calls < MaxStoreCalls
    /\ \E uuid \in Uuids, object \in Objects, opts \in Opts :
          store' = StoreCall("set", uuid, object, opts,
                             set(store.data, uuid, object, opts))
    /\ UNCHANGED <<controller, req, server, log, seq, suite, couch, fs, generator>>

StoreUpdate ==
    /\ store.last.calls < MaxStoreCalls
    /\ \E uuid \in Uuids, object \in Objects, opts \in Opts :
          store' = StoreCall("update", uuid, object, opts,
                             update(store.data, uuid, object, opts))
    /\ UNCHANGED <<controller, req, server, log, seq, suite, couch, fs, generator>>

StoreRemove ==
    /\ store.last.calls < MaxStoreCalls
    /\ \E uuid \in Uuids :
          store' = StoreCall("remove", uuid, EmptyDict, NoStoreCall.opts,
                             remove(store.data, uuid))
    /\ UNCHANGED <<controller, req, server, log, seq, suite, couch, fs, generator>>

NextStore == StoreSet \/ StoreUpdate \/ StoreRemove

SpecStore == InitStore /\ [][NextStore]_vars

\* A store called with key indices only, for objects that have the indexed
\* property: three uuids, and one call more.
MaxKeyCalls == 4

KeyUuids == Uuids \cup {"object-3"}

KeyObjects == Objects \ {EmptyDict}

KeyOpts == {opts \in Opts : opts.sets.entries = <<>>}

InitStoreKeys ==
    /\ store = [data |-> [InMemoryStore EXCEPT
                             !.objects = [u \in KeyUuids |-> NoEntry]],
                last |-> NoStoreCall]
    /\ couch = <<>>
    /\ fs = <<>>
    /\ generator = <<>>
    /\ controller = Tree("errorHandler", NoCodes, <<StaticContent>>, <<>>, NoOverlay)
    /\ req = NewRequest
    /\ server = [quitOnError |-> TRUE, closed |-> FALSE, reported |-> FALSE]
    /\ log = <<>>
    /\ seq = <<>>
    /\ suite = <<>>

KeysSet ==
    /\ store.last.calls < MaxKeyCalls
    /\ \E uuid \in KeyUuids, object \in KeyObjects, opts \in KeyOpts :
          store' = StoreCall("set", uuid, object, opts,
                             set(store.data, uuid, object, opts))
    /\ UNCHANGED <<controller, req, server, log, seq, suite, couch, fs, generator>>

KeysUpdate ==
    /\ store.last.calls < MaxKeyCalls
    /\ \E uuid \in KeyUuids, object \in KeyObjects, opts \in KeyOpts :
          store' = StoreCall("update", uuid, object, opts,
                             update(store.data, uuid, object, opts))
    /\ UNCHANGED <<controller, req, server, log, seq, suite, couch, fs, generator>>

KeysRemove ==
    /\ store.last.calls < MaxKeyCalls
    /\ \E uuid \in KeyUuids :
          store' = StoreCall("remove", uuid, EmptyDict, NoStoreCall.opts,
                             remove(store.data, uuid))
    /\ UNCHANGED <<controller, req, server, log, seq, suite, couch, fs, generator>>

NextStoreKeys == KeysSet \/ KeysUpdate \/ KeysRemove

SpecStoreKeys == InitStoreKeys /\ [][NextStoreKeys]_vars

\* C31: set on a uuid that already holds an object hands an error to its
\* callback and leaves the stored object and every index as they were; a
\* later get of the uuid yields the object stored first.
C31_SetExistingUuid ==
    (store.last.op = "set" /\ store.last.held) =>
        /\ store.last.err # NoError
        /\ store.last.threw = ""
        /\ ~store.last.changed
        /\ get(store.data, store.last.uuid) =
              [isNull |-> FALSE, object |-> store.last.old.object]

C31_Witness ==
    /\ store.last.op = "set"
    /\ store.last.held
    /\ store.last.object # store.last.old.object
    /\ Len(store.last.opts.keys.entries) = 1
    /\ store.last.err # NoError

\* The uuids that hold an object.
Stored == {u \in DOMAIN store.data.objects : _get(store.data, u) # NoEntry}

\* C32: a value of a key index maps to at most one uuid; and a set of a
\* second object whose key-indexed value is that of a stored object hands an
\* error to its callback, does not store the second object, and leaves the key
\* mapped to the first.
C32_KeysUnique ==
    /\ \A index \in KeyNames, value \in Values \cup {Missing} :
          Cardinality(query_uuids(store.data, index, value)) <= 1
    /\ (store.last.op = "set" /\ ~store.last.held /\ store.last.clashes # {}) =>
          /\ store.last.err # NoError
          /\ store.last.threw = ""
          /\ store.last.uuid \notin Stored
          /\ \A index \in store.last.clashes :
                \E first \in Stored \ {store.last.uuid} :
                    /\ query_uuids(store.data, index,
                                   PropertyOf(store.last.object, "foo")) = {first}
                    /\ PropertyOf(_get(store.data, first).keys, index) =
                          PropertyOf(store.last.object, "foo")

\* The index names opts gives for one index type, with the value the object
\* has for each.
NewIndices(given, object) ==
    {<<given.entries[i].index, PropertyOf(object, given.entries[i].property)>> :
        i \in 1..Len(given.entries)}

\* The index entries an object had that name another value than the new
\* ones, or an index opts no longer names.
OldIndices(dict, given, object) ==
    {<<index, dict[index]>> : index \in DOMAIN dict} \ NewIndices(given, object)

\* C33: after update has called back without an error, query_uuids returns
\* the uuid for each key or set index named in opts with the new value of the
\* object, and no longer returns it for any index entry the object had before
\* under another value or under an index name opts no longer gives.
C33_UpdateReindexes ==
    (store.last.op = "update" /\ store.last.err = NoError /\ store.last.threw = "") =>
        /\ \A new \in NewIndices(store.last.opts.keys, store.last.object) \cup
                      NewIndices(store.last.opts.sets, store.last.object) :
              store.last.uuid \in query_uuids(store.data, new[1], new[2])
        /\ \A old \in OldIndices(store.last.old.keys, store.last.opts.keys,
                                 store.last.object) \cup
                      OldIndices(store.last.old.sets, store.last.opts.sets,
                                 store.last.object) :
              store.last.uuid \notin query_uuids(store.data, old[1], old[2])

\* C39: an update that names the key index the object is stored under, with
\* a new object whose value for that key is unchanged, calls back without an
\* error; the key still maps the value to the uuid, and get yields the new
\* object.
C39_UpdateSameKey ==
    (/\ store.last.op = "update"
     /\ store.last.held
     /\ store.last.old.keys # EmptyDict
     /\ store.last.old.sets = EmptyDict
     /\ NewIndices(store.last.opts.keys, store.last.object) =
           {<<index, store.last.old.keys[index]>> :
               index \in DOMAIN store.last.old.keys}) =>
        /\ store.last.err = NoError
        /\ store.last.threw = ""
        /\ \A new \in NewIndices(store.last.opts.keys, store.last.object) :
              query_uuids(store.data, new[1], new[2]) = {store.last.uuid}
        /\ get(store.data, store.last.uuid) =
              [isNull |-> FALSE, object |-> store.last.object]

\* The index slots that name a uuid.
Indexed(uuid) ==
    {slot \in IndexSlots : uuid \in query_uuids(store.data, slot[1], slot[2])}

\* C40: after remove has called back without an error, get of the uuid yields
\* null and query_uuids returns the uuid for no index; at all times no index
\* entry names a uuid that holds no object.
C40_RemoveUnindexes ==
    /\ (store.last.op = "remove" /\ store.last.err = NoError
            /\ store.last.threw = "") =>
          /\ get(store.data, store.last.uuid).isNull
          /\ Indexed(store.last.uuid) = {}
    /\ \A uuid \in DOMAIN store.data.objects \ Stored : Indexed(uuid) = {}


\* ---------------------------------------------------------------------
\* The CouchDB data store (rowan/db/couch.js).

\* The number of get, save and remove calls made on one data store.
MaxCouchCalls == 4

\* object.id of an object without an id; as a member name it is "undefined".
NoId == "undefined"

Ids == {"object-d", NoId}

\* A document of the database, and a record of this._objectCache.
NoDoc == [exists |-> FALSE, rev |-> 0]

NoRecord == [cached |-> FALSE, revision |-> 0]

\* DataStore.create: the options, an empty cache; the database starts empty.
create(forceOverwrite) ==
    [opts |-> [forceOverwrite |-> forceOverwrite],
     _objectCache |-> [id \in Ids |-> NoRecord],
     docs |-> [id \in Ids |-> NoDoc],
     nextRev |-> 1,
     requests |-> {},
     removed |-> [id \in Ids |-> FALSE],
     calls |-> <<>>]

\* A request to the database that has not been answered to its callback:
\* which call made it, what its callback goes on to do, and once the database
\* has served it, the reply.
DbRequest(call, kind, id, rev, then) ==
    [call |-> call, kind |-> kind, id |-> id, rev |-> rev, then |-> then,
     served |-> FALSE, ok |-> FALSE, replyRev |-> 0]

\* A call on the data store: how often its callback was called and with what,
\* how many saveDoc requests it made, and for a get whether it was made after
\* a remove of the id had called back without an error with no save since;
\* for a remove, whether no save of the id was under way or called since.
DataStoreCall(op, id, clean) ==
    [op |-> op, id |-> id, callbacks |-> 0, result |-> "", saveDocs |-> 0,
     clean |-> clean, cacheChanged |-> FALSE]

_cacheLoadedObject(c, uuid, revision) ==
    [c EXCEPT !._objectCache[uuid] = [cached |-> TRUE, revision |-> revision]]

\* The callback of call n is called.
CallBack(c, n, result) ==
    [c EXCEPT !.calls[n].callbacks = @ + 1,
              !.calls[n].result = result,
              !.removed[c.calls[n].id] =
                  IF c.calls[n].op = "remove" /\ result = "ok"
                  THEN c.calls[n].clean
                  ELSE @]

DataStore_get(c, uuid) ==
    LET n == Len(c.calls) + 1
        called == [c EXCEPT !.calls = Append(@, DataStoreCall("get", uuid,
                                                              c.removed[uuid]))]
    IN  IF c._objectCache[uuid].cached
        THEN CallBack(called, n, "object")
        ELSE [called EXCEPT !.requests =
                  @ \cup {DbRequest(n, "getDoc", uuid, 0, "get")}]

\* save does not return after it has called back with the DataStoreSaveError:
\* it goes on to send the document.
DataStore_save(c, id) ==
    LET n == Len(c.calls) + 1
        called == [c EXCEPT !.removed[id] = FALSE,
                            !.calls = [k \in 1..Len(c.calls) + 1 |->
                                IF k = Len(c.calls) + 1
                                THEN DataStoreCall("save", id, TRUE)
                                ELSE IF c.calls[k].id = id
                                     THEN [c.calls[k] EXCEPT !.clean = FALSE]
                                     ELSE c.calls[k]]]
        refused == IF id = NoId
                   THEN CallBack(called, n, "DataStoreSaveError")
                   ELSE called
    IN  [refused EXCEPT
            !.requests = @ \cup
                {DbRequest(n, "saveDoc", id, c._objectCache[id].revision, "save")},
            !.calls[n].saveDocs = @ + 1]

DataStore_remove(c, uuid) ==
    LET n == Len(c.calls) + 1
        clean == \A r \in c.requests : ~(r.kind = "saveDoc" /\ r.id = uuid)
        called == [c EXCEPT !.calls = Append(@, DataStoreCall("remove", uuid, clean))]
        cacheData == c._objectCache[uuid]
    IN  IF ~cacheData.cached
        THEN IF c.opts.forceOverwrite
             THEN [called EXCEPT !.requests =
                      @ \cup {DbRequest(n, "getDoc", uuid, 0, "removeLoaded")}]
             ELSE CallBack(called, n, "DataStoreDeleteError")
        ELSE [called EXCEPT
                 !.requests = @ \cup {DbRequest(n, "removeDoc", uuid,
                                                cacheData.revision, "removeCached")},
                 !._objectCache[uuid] = NoRecord]

\* The database serves a request. Whether it accepts a document saved under
\* an undefined id is not ours to say: accepts says which.
Serve(c, r, accepts) ==
    LET doc == c.docs[r.id]
        ok == CASE r.kind = "getDoc" -> doc.exists
                [] r.kind = "saveDoc" ->
                      IF r.id = NoId
                      THEN accepts
                      ELSE (doc.exists /\ r.rev = doc.rev) \/ (~doc.exists /\ r.rev = 0)
                [] OTHER -> doc.exists /\ r.rev = doc.rev
        served == [r EXCEPT !.served = TRUE, !.ok = ok,
                            !.replyRev = IF r.kind = "saveDoc" /\ ok
                                         THEN c.nextRev ELSE doc.rev]
    IN  [c EXCEPT
            !.requests = (@ \ {r}) \cup {served},
            !.docs[r.id] =
                CASE r.kind = "saveDoc" /\ ok -> [exists |-> TRUE, rev |-> c.nextRev]
                  [] r.kind = "removeDoc" /\ ok -> NoDoc
                  [] OTHER -> @,
            !.nextRev = IF r.kind = "saveDoc" /\ ok THEN @ + 1 ELSE @]

\* The reply of a served request reaches the callback given with it.
Reply(c, r) ==
    LET rest == [c EXCEPT !.requests = @ \ {r}]
    IN  CASE r.then = "get" ->
              IF ~r.ok
              THEN CallBack(rest, r.call, "NotInDatabaseError")
              ELSE CallBack(_cacheLoadedObject(rest, r.id, r.replyRev),
                            r.call, "object")
          [] r.then = "save" ->
              IF r.ok
              THEN CallBack([_cacheLoadedObject(rest, r.id, r.replyRev)
                                EXCEPT !.calls[r.call].cacheChanged = TRUE],
                            r.call, "ok")
              ELSE CallBack(rest, r.call, "conflict")
          [] r.then = "removeCached" ->
              \* err.rerror is never "conflict": no second attempt is made.
              IF r.ok
              THEN CallBack(rest, r.call, "ok")
              ELSE CallBack(rest, r.call, "conflict")
          [] r.then = "removeLoaded" ->
              IF ~r.ok
              THEN CallBack(rest, r.call, "not_found")
              ELSE [rest EXCEPT !.requests =
                       @ \cup {DbRequest(r.call, "removeDoc", r.id, r.replyRev,
                                         "removeForced")}]
          [] OTHER ->
              IF r.ok
              THEN CallBack(rest, r.call, "ok")
              ELSE CallBack(rest, r.call, "conflict")

InitCouch ==
    /\ generator = <<>>
    /\ fs = <<>>
    /\ \E forceOverwrite \in BOOLEAN : couch = create(forceOverwrite)
    /\ store = <<>>
    /\ controller = Tree("errorHandler", NoCodes, <<StaticContent>>, <<>>, NoOverlay)
    /\ req = NewRequest
    /\ server = [quitOnError |-> TRUE, closed |-> FALSE, reported |-> FALSE]
    /\ log = <<>>
    /\ seq = <<>>
    /\ suite = <<>>

CouchGet ==
    /\ Len(couch.calls) < MaxCouchCalls
    /\ \E uuid \in Ids \ {NoId} : couch' = DataStore_get(couch, uuid)
    /\ UNCHANGED <<controller, req, server, log, seq, suite, store, fs, generator>>

CouchSave ==
    /\ Len(couch.calls) < MaxCouchCalls
    /\ \E id \in Ids : couch' = DataStore_save(couch, id)
    /\ UNCHANGED <<controller, req, server, log, seq, suite, store, fs, generator>>

CouchRemove ==
    /\ Len(couch.calls) < MaxCouchCalls
    /\ \E uuid \in Ids \ {NoId} : couch' = DataStore_remove(couch, uuid)
    /\ UNCHANGED <<controller, req, server, log, seq, suite, store, fs, generator>>

CouchServe ==
    /\ \E r \in couch.requests, accepts \in BOOLEAN :
          /\ ~r.served
          /\ couch' = Serve(couch, r, accepts)
    /\ UNCHANGED <<controller, req, server, log, seq, suite, store, fs, generator>>

CouchReply ==
    /\ \E r \in couch.requests :
          /\ r.served
          /\ couch' = Reply(couch, r)
    /\ UNCHANGED <<controller, req, server, log, seq, suite, store, fs, generator>>

NextCouch == CouchGet \/ CouchSave \/ CouchRemove \/ CouchServe \/ CouchReply

SpecCouch == InitCouch /\ [][NextCouch]_vars

\* C34: once remove(id) has called back without an error, and no save of the
\* id was made since, a get(id) calls back with a NotInDatabaseError, also
\* when other get(id) calls were under way while the remove ran.
C34_RemovedStaysRemoved ==
    \A n \in 1..Len(couch.calls) :
        (/\ couch.calls[n].op = "get"
         /\ couch.calls[n].clean
         /\ couch.calls[n].callbacks > 0) =>
            couch.calls[n].result = "NotInDatabaseError"

\* C36: save of an object without an id calls its callback exactly once, with
\* a DataStoreSaveError, sends no saveDoc request and leaves the cache as it
\* was.
C36_SaveWithoutId ==
    \A n \in 1..Len(couch.calls) :
        (couch.calls[n].op = "save" /\ couch.calls[n].id = NoId) =>
            /\ couch.calls[n].callbacks = 1
            /\ couch.calls[n].result = "DataStoreSaveError"
            /\ couch.calls[n].saveDocs = 0
            /\ ~couch.calls[n].cacheChanged


\* ---------------------------------------------------------------------
\* The file server (createFileServer of rowan/controllers/shortcuts.js).

\* The longest remaining path tried, in characters.
MaxPathLen == 6

\* The characters of a path: a word character, and two that are not.
Chars == {"a", ".", "/"}

IsWord(c) == c = "a"

FilePaths == UNION {[1..n -> Chars] : n \in 1..MaxPathLen}

\* traversalRegex = /(^|\/)\.\.\W/
traversalRegex(path) ==
    \E i \in 1..Len(path) :
        /\ i = 1 \/ path[i - 1] = "/"
        /\ i + 2 <= Len(path)
        /\ path[i] = "."
        /\ path[i + 1] = "."
        /\ ~IsWord(path[i + 2])

\* fileExtensionRegex = /.*(\.\w+)$/: where the extension starts, 0 when the
\* path does not match.
fileExtensionRegex(path) ==
    LET starts == {i \in 1..Len(path) - 1 :
                      /\ path[i] = "."
                      /\ \A j \in i + 1..Len(path) : IsWord(path[j])}
    IN  IF starts = {} THEN 0 ELSE CHOOSE i \in starts : TRUE

\* What mimeTypes.forExtension may give for an extension: a text type,
\* another type, or nothing.
MimeTypes == {"text/plain", "image/png", NotGiven}

\* The types whose first four characters are "text".
TextTypes == {"text/plain"}

Http403 == HttpError(0, 403, "")

FileData == [kind |-> "content", code |-> 0, text |-> "file"]

NoFiles == [readFile |-> <<>>, reads |-> 0]

\* The controller createFileServer returns, up to its call of fs.readFile.
\* Neither callback of an error is followed by a return.
fileServer(q, mimeType) ==
    LET path == q.remainingPath
        q1 == IF traversalRegex(path) THEN callback(q, Http403) ELSE q
        match == fileExtensionRegex(path)
        q2 == IF match = 0 THEN callback(q1, Http404) ELSE q1
    IN  IF match = 0 \/ mimeType = NotGiven
        THEN [q |-> [q2 EXCEPT !.threw = "TypeError"], fs |-> NoFiles]
        ELSE [q |-> q2,
              fs |-> [readFile |-> <<[path |-> path, mimeType |-> mimeType,
                                      encoding |-> IF mimeType \in TextTypes
                                                   THEN "utf8" ELSE "binary"]>>,
                      reads |-> 1]]

\* The callback given to fs.readFile.
fileRead(q, read, err) ==
    IF err
    THEN callback(q, Http404)
    ELSE LET q1 == setStatus(q, 200)
             q2 == addHeaders(q1, [h \in {"Content-Type", "Content-Length"} |->
                                     IF h = "Content-Type" THEN read.mimeType
                                     ELSE "4"])
             q3 == write(q2, FileData)
             q4 == end(q3)
         IN  callback(q4, NoErr)

InitFiles ==
    /\ generator = <<>>
    /\ fs = NoFiles
    /\ couch = <<>>
    /\ store = <<>>
    /\ controller = Tree("errorHandler", NoCodes, <<StaticContent>>, <<>>, NoOverlay)
    /\ req = NewRequest
    /\ server = [quitOnError |-> TRUE, closed |-> FALSE, reported |-> FALSE]
    /\ log = <<>>
    /\ seq = <<>>
    /\ suite = <<>>

\* The file server is called with a context.
FileRequest ==
    /\ ~req.started
    /\ \E path \in FilePaths, mimeType \in MimeTypes :
          LET served == fileServer(NewContext(path, "GET"), mimeType)
          IN  /\ req' = served.q
              /\ fs' = served.fs
    /\ UNCHANGED <<controller, server, log, seq, suite, store, couch, generator>>

\* fs.readFile is done: with the data of the file, or with an error.
FileRead ==
    /\ fs.readFile # <<>>
    /\ \E err \in BOOLEAN :
          req' = fileRead(req, Head(fs.readFile), err)
    /\ fs' = [fs EXCEPT !.readFile = Tail(@)]
    /\ UNCHANGED <<controller, server, log, seq, suite, store, couch, generator>>

NextFiles == FileRequest \/ FileRead

SpecFiles == InitFiles /\ [][NextFiles]_vars

\* C35: for a remaining path that matches the directory-traversal pattern,
\* the file server calls its callback exactly once, with a Forbidden (403)
\* error, and neither reads the file nor writes to the response.
C35_TraversalForbidden ==
    (req.started /\ traversalRegex(req.path)) =>
        /\ Len(req.calls) = 1
        /\ req.calls[1].err.statusCode = 403
        /\ req.threw = "none"
        /\ fs.reads = 0
        /\ req.response.nsr = <<>>


\* ---------------------------------------------------------------------
\* createUUID (rowan/utils/uuid.js).

\* The number of createUUID calls, of generator processes spawned, of chunks
\* of output the processes write, and of UUIDs in one chunk.
MaxUuidCalls == 3

MaxSpawns == 2

MaxChunks == 2

MaxBatch == 2

\* What a callback was called with: nothing yet, an error, or a string of the
\* cache (a UUID is a positive number; the empty string is Blank).
Blank == 0

NotCalled == [called |-> 0, err |-> FALSE, uuid |-> Blank]

NoSpawn ==
    [from |-> "none", cacheEmpty |-> FALSE, generating |-> FALSE,
     code |-> 0, spooled |-> 0]

\* The closure of createUUID when the module is loaded, the generator
\* processes that run, and what was observed of the calls.
NewGenerator ==
    [uuids |-> <<>>, spooledCallbacks |-> <<>>, generating |-> FALSE,
     running |-> 0, spawns |-> 0, chunks |-> 0, nextUuid |-> 1,
     results |-> <<>>, lastSpawn |-> NoSpawn]

\* A spooled callback is popped and called.
Notify(g, err, value) ==
    LET cb == g.spooledCallbacks[Len(g.spooledCallbacks)]
    IN  [g EXCEPT !.spooledCallbacks = SubSeq(@, 1, Len(@) - 1),
                  !.results[cb] = [called |-> @.called + 1, err |-> err,
                                   uuid |-> value]]

RECURSIVE notifyCallbacksOfError(_)
notifyCallbacksOfError(g) ==
    IF Len(g.spooledCallbacks) > 0
    THEN notifyCallbacksOfError(Notify(g, TRUE, Blank))
    ELSE g

\* topUpCache spawns a generator process and listens to it.
topUpCache(g, from, code) ==
    [g EXCEPT !.running = @ + 1,
              !.spawns = @ + 1,
              !.lastSpawn = [from |-> from,
                             cacheEmpty |-> g.uuids = <<>>,
                             generating |-> g.generating,
                             code |-> code,
                             spooled |-> Len(g.spooledCallbacks)]]

\* Mutant of createUUID: a generator is spawned whether or not one is pending.
createUUID_spawnsAgain(g) ==
    LET cb == Len(g.results) + 1
        called == [g EXCEPT !.results = Append(@, NotCalled)]
    IN  IF Len(g.uuids) > 0
        THEN [called EXCEPT !.uuids = SubSeq(@, 1, Len(@) - 1),
                            !.results[cb] = [called |-> 1, err |-> FALSE,
                                             uuid |-> g.uuids[Len(g.uuids)]]]
        ELSE [topUpCache([called EXCEPT !.spooledCallbacks = Append(@, cb)],
                         "request", 0) EXCEPT !.generating = TRUE]

\* createUUID(callback); the callback is the next one in results.
createUUID(g) ==
    LET cb == Len(g.results) + 1
        called == [g EXCEPT !.results = Append(@, NotCalled)]
        spooled == [called EXCEPT !.spooledCallbacks = Append(@, cb)]
    IN  IF Len(g.uuids) > 0
        THEN [called EXCEPT !.uuids = SubSeq(@, 1, Len(@) - 1),
                            !.results[cb] = [called |-> 1, err |-> FALSE,
                                             uuid |-> g.uuids[Len(g.uuids)]]]
        ELSE IF ~g.generating
             THEN [topUpCache(spooled, "request", 0) EXCEPT !.generating = TRUE]
             ELSE spooled

\* The listener of stdout: the chunk is trimmed and split into lines. A chunk
\* of count lines gives count UUIDs, a chunk of white space one empty string.
stdoutData(g, count) ==
    IF count = 0
    THEN [g EXCEPT !.uuids = @ \o <<Blank>>, !.chunks = @ + 1]
    ELSE [g EXCEPT !.uuids = @ \o [i \in 1..count |-> g.nextUuid + i - 1],
                   !.nextUuid = @ + count,
                   !.chunks = @ + 1]

\* The listener of stderr.
stderrData(g) == notifyCallbacksOfError(g)

\* while (spooledCallbacks.length > 0 & uuids.length > 0)
RECURSIVE sendUuids(_)
sendUuids(g) ==
    IF Len(g.spooledCallbacks) > 0 /\ Len(g.uuids) > 0
    THEN sendUuids([Notify(g, FALSE, g.uuids[Len(g.uuids)])
                       EXCEPT !.uuids = SubSeq(@, 1, Len(@) - 1)])
    ELSE g

\* The listener of exit.
exit(g, code) ==
    LET gone == [g EXCEPT !.running = @ - 1]
        sent == sendUuids(gone)
    IN  IF code # 0
        THEN notifyCallbacksOfError(gone)
        ELSE IF Len(sent.spooledCallbacks) > 0
             THEN topUpCache(sent, "exit", code)
             ELSE [sent EXCEPT !.generating = FALSE]

InitUuid ==
    /\ generator = NewGenerator
    /\ fs = <<>>
    /\ couch = <<>>
    /\ store = <<>>
    /\ controller = Tree("errorHandler", NoCodes, <<StaticContent>>, <<>>, NoOverlay)
    /\ req = NewRequest
    /\ server = [quitOnError |-> TRUE, closed |-> FALSE, reported |-> FALSE]
    /\ log = <<>>
    /\ seq = <<>>
    /\ suite = <<>>

UuidCreate ==
    /\ Len(generator.results) < MaxUuidCalls
    /\ generator' = createUUID(generator)
    /\ generator'.spawns <= MaxSpawns
    /\ UNCHANGED <<controller, req, server, log, seq, suite, store, couch, fs>>

UuidStdout ==
    /\ generator.running > 0
    /\ generator.chunks < MaxChunks
    /\ \E count \in 0..MaxBatch : generator' = stdoutData(generator, count)
    /\ UNCHANGED <<controller, req, server, log, seq, suite, store, couch, fs>>

UuidStderr ==
    /\ generator.running > 0
    /\ generator' = stderrData(generator)
    /\ UNCHANGED <<controller, req, server, log, seq, suite, store, couch, fs>>

\* A generator process exits. Once MaxSpawns processes were spawned, only
\* the exits that spawn no further one are followed.
UuidExit ==
    /\ generator.running > 0
    /\ \E code \in {0, 1} :
          /\ generator' = exit(generator, code)
          /\ generator'.spawns <= MaxSpawns
    /\ UNCHANGED <<controller, req, server, log, seq, suite, store, couch, fs>>

NextUuid == UuidCreate \/ UuidStdout \/ UuidStderr \/ UuidExit

SpecUuid == InitUuid /\ [][NextUuid]_vars

\* Every generator process that was spawned exits in the end.
SpecUuidExits == SpecUuid /\ WF_vars(UuidExit)

\* The callback of the c-th createUUID call was given and has been called.
Registered(c) == Len(generator.results) >= c

Answered(c) == Registered(c) /\ generator.results[c].called = 1

\* No callback is called twice, and what it is called with is an error or a
\* UUID.
CalledProperly ==
    \A c \in 1..Len(generator.results) :
        /\ generator.results[c].called <= 1
        /\ (generator.results[c].called = 1 /\ ~generator.results[c].err) =>
              generator.results[c].uuid # Blank

\* C37: provided every generator process that is spawned exits in the end,
\* every callback given to createUUID is in the end called, exactly once, with
\* a UUID or an error; this holds also for the callbacks given after an
\* earlier run of the generator has failed.
C37_EveryCallbackCalled ==
    /\ []CalledProperly
    /\ \A c \in 1..MaxUuidCalls : Registered(c) ~> Answered(c)

\* The part of C37 about the end alone.
C37_InTheEnd == \A c \in 1..MaxUuidCalls : Registered(c) ~> Answered(c)

\* C38: at most one generator process runs at a time; one is spawned only by
\* a call that finds the cache empty and no generation pending, or when a
\* batch that ended well left spooled callbacks unserved; and no UUID of the
\* cache is handed to more than one callback.
C38_OneGenerator ==
    /\ generator.running <= 1
    /\ generator.lastSpawn.from = "request" =>
          generator.lastSpawn.cacheEmpty /\ ~generator.lastSpawn.generating
    /\ generator.lastSpawn.from = "exit" =>
          generator.lastSpawn.code = 0 /\ generator.lastSpawn.spooled > 0
    /\ \A c \in 1..Len(generator.results) :
          \A d \in 1..Len(generator.results) :
              (/\ c # d
               /\ generator.results[c].called > 0
               /\ generator.results[d].called > 0
               /\ generator.results[c].uuid # Blank) =>
                  generator.results[c].uuid # generator.results[d].uuid

C38_Witness ==
    /\ generator.spawns = 2
    /\ generator.lastSpawn.from = "exit"
    /\ generator.running = 1
    /\ Len(generator.results) = 3
    /\ generator.results[3].uuid # Blank
    /\ generator.results[2].uuid # Blank
    /\ generator.results[1].called = 0

====
